---- MODULE Spec2Model ----
(***************************************************************************)
(* Supply-chain risk agent (backend-nodejs): the Run Coordinator           *)
(* (AgentService), the Source Registry (DataSourceManagerService) and the  *)
(* Analysis Engine (AgentOrchestratorService).                             *)
(*                                                                         *)
(* JavaScript runs one handler at a time and a handler gives up control    *)
(* only at an await, so every action below is the code from one await to   *)
(* the next.  An external call (database, connector, model backend) either *)
(* returns or throws; both outcomes are enabled wherever the code awaits.  *)
(***************************************************************************)
EXTENDS Integers, Sequences, FiniteSets, TLC

\* ------------------------------------------------------------------ bounds
MaxTasks == 2
MaxTriggers == 2
MaxRisks == 2
MaxOpps == 1
MaxResolved == 1
MaxScored == 3
MaxCalls == 3

\* ------------------------------------------------------- JavaScript values
\* undefined / null (a missing field); every test in the code that reads it
\* treats the two alike (||, ?., ??, Array.isArray).
Undefined == [t |-> "undefined"]
JsStr(s) == [t |-> "string", v |-> s]
JsNum(n) == [t |-> "number", v |-> n]
JsList(l) == [t |-> "list", v |-> l]

\* obj.field on a record that may lack the field
Get(obj, f) == IF f \in DOMAIN obj THEN obj[f] ELSE Undefined

\* ToBoolean(v)
Truthy(v) ==
  CASE v.t = "undefined" -> FALSE
    [] v.t = "string" -> v.v # ""
    [] v.t = "number" -> v.v # 0
    [] OTHER -> TRUE

\* Array.isArray(v)
IsArray(v) == v.t = "list"

\* ------------------------------------------------------- Source Registry
SourceTypes == {"weather", "news", "traffic", "market", "shipping"}

\* What one connector does when asked: isAvailable() answers true or false
\* or throws; fetchData() returns its list, returns no list, or throws.
ConnOutcomes == {"ok", "unavailable", "availThrows", "fetchThrows", "fetchUndefined"}

\* The try-block of one loop iteration (isAvailable, then fetchData): the
\* list it stores for the type, or an exception.
FetchTry(type, outcome, data) ==
  CASE outcome[type] = "availThrows" -> [thrown |-> TRUE, list |-> <<>>]
    [] outcome[type] = "unavailable" -> [thrown |-> FALSE, list |-> <<>>]
    [] outcome[type] = "fetchThrows" -> [thrown |-> TRUE, list |-> <<>>]
    \* results.set(type, undefined), then data.length throws
    [] outcome[type] = "fetchUndefined" -> [thrown |-> TRUE, list |-> <<>>]
    [] OTHER -> [thrown |-> FALSE, list |-> data[type]]

\* The catch-block: results.set(type, []) and the loop goes on.
FetchCatchMutRethrow(tried) == tried

FetchCatch(tried) ==
  IF tried.thrown THEN [thrown |-> FALSE, list |-> <<>>] ELSE tried

\* One iteration of the for-loop of fetchDataSourcesByTypes.
FetchOne(type, registered, outcome, data) ==
  IF type \notin registered
  THEN [thrown |-> FALSE, list |-> <<>>]
  ELSE FetchCatch(FetchTry(type, outcome, data))

\* fetchDataSourcesByTypes(types, params): the loop over `types`, in order.
\* `acc` is the Map built so far (a function on the types already seen).
RECURSIVE FetchLoop(_, _, _, _, _)
FetchLoop(types, registered, outcome, data, acc) ==
  IF types = <<>> THEN [thrown |-> FALSE, results |-> acc]
  ELSE LET type == Head(types)
           one == FetchOne(type, registered, outcome, data)
           acc2 == [k \in (DOMAIN acc) \cup {type} |->
                      IF k = type THEN one.list ELSE acc[k]]
       IN IF one.thrown THEN [thrown |-> TRUE, results |-> acc]
          ELSE FetchLoop(Tail(types), registered, outcome, data, acc2)

EmptyMap == [k \in {} |-> <<>>]

FetchDataSourcesByTypes(types, registered, outcome, data) ==
  FetchLoop(types, registered, outcome, data, EmptyMap)

\* ------------------------------------------------------- Analysis Engine
\* A string is the sequence of its pieces (words, or the parts of a template
\* literal); includes() and toLowerCase() work piece by piece.
T(s) == JsStr(<<s>>)
JsObj(o) == [t |-> "object", v |-> o]

\* String(v), as a template literal ${v} renders it
Str(v) ==
  CASE v.t = "string" -> v.v
    [] v.t = "number" -> <<ToString(v.v)>>
    [] OTHER -> <<"undefined">>

LowerWord(w) ==
  CASE w = "Disruption" -> "disruption"
    [] w = "CRISIS" -> "crisis"
    [] w = "Delay" -> "delay"
    [] w = "HIGH" -> "high"
    [] w = "Critical" -> "critical"
    [] OTHER -> w

\* s.toLowerCase()
ToLowerCase(s) == [i \in 1..Len(s) |-> LowerWord(s[i])]

\* s.includes(word)
Includes(s, word) == \E i \in 1..Len(s) : s[i] = word

\* a > b in JavaScript: false when either side is undefined (NaN)
JsGt(a, b) == a.t = "number" /\ b.t = "number" /\ a.v > b.v

\* Math.abs(x) * 1000 (NaN, rendered as undefined, when x is no number)
AbsTimes1000(x) ==
  IF x.t = "number"
  THEN JsNum((IF x.v < 0 THEN 0 - x.v ELSE x.v) * 1000)
  ELSE Undefined

\* mockAnalyzeDataItem(sourceType, dataItem): the general fallback rules
MockWeatherMutAnyCase(dataItem) ==
  IF Get(dataItem, "condition").t = "string"
     /\ ToLowerCase(Get(dataItem, "condition").v) \in {<<"storm">>, <<"rain">>}
  THEN << [title |-> T("Weather Alert"), severity |-> T("high"),
           affectedRegion |-> JsStr(Str(Get(dataItem, "city")) \o <<", ">>
                                    \o Str(Get(dataItem, "country"))),
           estimatedCost |-> JsNum(50000)] >>
  ELSE <<>>

MockWeather(dataItem) ==
  IF Get(dataItem, "condition") = T("Storm") \/ Get(dataItem, "condition") = T("Rain")
  THEN << [title |-> JsStr(<<"Weather Alert: ">> \o Str(Get(dataItem, "condition"))
                            \o <<" in ">> \o Str(Get(dataItem, "city"))),
           severity |-> T("high"),
           affectedRegion |-> JsStr(Str(Get(dataItem, "city")) \o <<", ">>
                                    \o Str(Get(dataItem, "country"))),
           estimatedCost |-> JsNum(50000)] >>
  ELSE <<>>

MockNews(dataItem) ==
  LET title == IF Get(dataItem, "title").t = "string"
               THEN ToLowerCase(Get(dataItem, "title").v) ELSE <<>>
  IN IF Includes(title, "disruption") \/ Includes(title, "closure")
        \/ Includes(title, "delay")
     THEN << [title |-> JsStr(<<"News Alert: ">> \o Str(Get(dataItem, "title"))),
              severity |-> T("medium"),
              estimatedCost |-> JsNum(30000)] >>
     ELSE <<>>

MockTraffic(dataItem) ==
  IF JsGt(Get(dataItem, "estimatedDelay"), JsNum(60))
     \/ Get(dataItem, "congestionLevel") = T("severe")
  THEN << [title |-> JsStr(<<"Traffic Delay: ">> \o Str(Get(dataItem, "origin"))
                            \o <<" to ">> \o Str(Get(dataItem, "destination"))),
           severity |-> T("medium"),
           affectedRegion |-> JsStr(Str(Get(dataItem, "origin")) \o <<" - ">>
                                    \o Str(Get(dataItem, "destination"))),
           estimatedCost |-> JsNum(10000)] >>
  ELSE <<>>

MockMarketMutInclusive(dataItem) ==
  IF JsGt(JsNum(-4), Get(dataItem, "priceChangePercent"))
  THEN << [title |-> JsStr(<<"Price Drop Opportunity: ">>
                            \o Str(Get(dataItem, "commodity"))),
           type |-> T("cost_saving"),
           estimatedValue |-> AbsTimes1000(Get(dataItem, "priceChange"))] >>
  ELSE <<>>

MockMarket(dataItem) ==
  IF JsGt(JsNum(-5), Get(dataItem, "priceChangePercent"))
  THEN << [title |-> JsStr(<<"Price Drop Opportunity: ">>
                            \o Str(Get(dataItem, "commodity"))),
           type |-> T("cost_saving"),
           estimatedValue |-> AbsTimes1000(Get(dataItem, "priceChange"))] >>
  ELSE <<>>

mockAnalyzeDataItem(sourceType, dataItem) ==
  [risks |-> JsList((IF sourceType = "weather" THEN MockWeather(dataItem) ELSE <<>>)
                    \o (IF sourceType = "news" THEN MockNews(dataItem) ELSE <<>>)
                    \o (IF sourceType = "traffic" THEN MockTraffic(dataItem) ELSE <<>>)),
   opportunities |-> JsList(IF sourceType = "market" THEN MockMarket(dataItem) ELSE <<>>)]

\* a || b
JsOr(a, b) == IF Truthy(a) THEN a ELSE b

\* dataItem?.data ?? dataItem
Payload(dataItem) ==
  IF Get(dataItem, "data").t = "object" THEN Get(dataItem, "data").v ELSE dataItem

\* mockAnalyzeItemRisksOnly(sourceType, dataItem, context): risks-only rules.
\* title.slice(0, 60) keeps the whole title: the titles here are shorter.
MockGlobalRisk(dataItem) ==
  LET raw == JsOr(JsOr(Get(dataItem, "title"), Get(dataItem, "description")), JsStr(<<>>))
      title == Str(raw)
      low == ToLowerCase(title)
  IN IF Len(title) > 0 /\ (Includes(low, "disruption") \/ Includes(low, "crisis")
                            \/ Includes(low, "shortage"))
     THEN << [title |-> JsStr(<<"Global risk: ">> \o title),
              severity |-> T("medium"),
              affectedRegion |-> T("Global"),
              affectedSupplier |-> Undefined,
              estimatedCost |-> JsNum(50000)] >>
     ELSE <<>>

MockShippingMutSeven(dataItem) ==
  LET status == JsOr(Get(dataItem, "status"), Get(dataItem, "routeStatus"))
      disrupted == status = T("disrupted") \/ status = T("delayed")
                   \/ JsGt(Get(dataItem, "delayDays"), JsNum(0))
      origin == Str(JsOr(Get(dataItem, "origin"), JsStr(<<>>)))
      destination == Str(JsOr(Get(dataItem, "destination"), JsStr(<<>>)))
  IN IF disrupted
     THEN << [title |-> JsStr(<<"Shipping disruption: ">> \o origin \o <<" -> ">>
                               \o destination),
              severity |-> IF JsGt(Get(dataItem, "delayDays"), JsNum(6))
                           THEN T("high") ELSE T("medium"),
              affectedRegion |-> JsStr(origin \o <<" - ">> \o destination),
              affectedSupplier |-> Undefined,
              estimatedCost |-> JsNum(25000)] >>
     ELSE <<>>

MockShipping(dataItem) ==
  LET status == JsOr(Get(dataItem, "status"), Get(dataItem, "routeStatus"))
      disrupted == status = T("disrupted") \/ status = T("delayed")
                   \/ JsGt(Get(dataItem, "delayDays"), JsNum(0))
      origin == Str(JsOr(Get(dataItem, "origin"), JsStr(<<>>)))
      destination == Str(JsOr(Get(dataItem, "destination"), JsStr(<<>>)))
  IN IF disrupted
     THEN << [title |-> JsStr(<<"Shipping disruption: ">> \o origin \o <<" -> ">>
                               \o destination),
              severity |-> IF JsGt(Get(dataItem, "delayDays"), JsNum(7))
                           THEN T("high") ELSE T("medium"),
              affectedRegion |-> JsStr(origin \o <<" - ">> \o destination),
              affectedSupplier |-> Undefined,
              estimatedCost |-> JsNum(25000)] >>
     ELSE <<>>

mockAnalyzeItemRisksOnly(sourceType, dataItem, context) ==
  [risks |-> JsList((IF context = "global_risk" THEN MockGlobalRisk(dataItem) ELSE <<>>)
                    \o (IF context = "shipping_routes" THEN MockShipping(dataItem)
                        ELSE <<>>))]

\* What the model backend does with one prompt: llm.invoke throws, answers
\* text without any {...}, answers {...} that JSON.parse rejects, or answers
\* a JSON object (resp.parsed).
RespKinds == {"throws", "noJson", "badJson", "json"}

\* analyzeDataItem(sourceType, dataItem, scope): the object handed back to
\* analyzeData.  A parsed answer is returned as it is.
ParsedResult(parsed, sourceType, dataItem) == parsed

analyzeDataItem(llm, resp, sourceType, dataItem) ==
  IF ~llm THEN mockAnalyzeDataItem(sourceType, dataItem)
  ELSE IF resp.kind = "json" THEN ParsedResult(resp.parsed, sourceType, dataItem)
  ELSE mockAnalyzeDataItem(sourceType, dataItem)

\* analyzeItemRisksOnly(sourceType, dataItem, context)
analyzeItemRisksOnly(llm, resp, sourceType, dataItem, context) ==
  IF ~llm THEN mockAnalyzeItemRisksOnly(sourceType, dataItem, context)
  ELSE IF resp.kind = "json"
  THEN [risks |-> IF IsArray(Get(resp.parsed, "risks"))
                  THEN Get(resp.parsed, "risks") ELSE JsList(<<>>)]
  ELSE mockAnalyzeItemRisksOnly(sourceType, dataItem, context)

\* v && v.length > 0 (analyzeData) and v?.length (the risks-only callers):
\* a string has a length too
HasLength(v) == (v.t = "list" \/ v.t = "string") /\ Len(v.v) > 0

\* {...r, sourceType, sourceData: dataItem}
Tagged(r, sourceType, dataItem) ==
  [f \in (DOMAIN r) \cup {"sourceType", "sourceData"} |->
     IF f = "sourceType" THEN T(sourceType)
     ELSE IF f = "sourceData" THEN JsObj(dataItem) ELSE r[f]]

TagAll(list, sourceType, dataItem) ==
  [i \in 1..Len(list) |-> Tagged(list[i], sourceType, dataItem)]

\* The entries of the fetched Map, flattened in iteration order: one
\* <<sourceType, dataItem, backend answer>> per item.
RECURSIVE Flatten(_, _, _)
Flatten(order, map, resps) ==
  IF order = <<>> THEN <<>>
  ELSE LET type == Head(order)
       IN [i \in 1..Len(map[type]) |-> <<type, map[type][i], resps[type][i]>>]
          \o Flatten(Tail(order), map, resps)

\* analyzeData(allData, scope): the two nested loops.  analysis.risks.map
\* exists only on an array; on a string it is a TypeError.
RECURSIVE AnalyzeDataLoop(_, _, _, _)
AnalyzeDataLoop(llm, todo, risks, opportunities) ==
  IF todo = <<>>
  THEN [thrown |-> FALSE, risks |-> risks, opportunities |-> opportunities]
  ELSE LET sourceType == Head(todo)[1]
           dataItem == Head(todo)[2]
           analysis == analyzeDataItem(llm, Head(todo)[3], sourceType, dataItem)
           r == Get(analysis, "risks")
           o == Get(analysis, "opportunities")
           risks2 == IF HasLength(r) /\ IsArray(r)
                     THEN risks \o TagAll(r.v, sourceType, dataItem) ELSE risks
           opps2 == IF HasLength(o) /\ IsArray(o)
                    THEN opportunities \o TagAll(o.v, sourceType, dataItem)
                    ELSE opportunities
       IN IF HasLength(r) /\ ~IsArray(r)
          THEN [thrown |-> TRUE, risks |-> risks, opportunities |-> opportunities]
          ELSE IF HasLength(o) /\ ~IsArray(o)
          THEN [thrown |-> TRUE, risks |-> risks2, opportunities |-> opportunities]
          ELSE AnalyzeDataLoop(llm, Tail(todo), risks2, opps2)

analyzeData(llm, order, allData, resps) ==
  AnalyzeDataLoop(llm, Flatten(order, allData, resps), <<>>, <<>>)

\* analyzeGlobalRisk(newsData) and analyzeShippingDisruptions(routeData):
\* analyzeItemRisksOnly always hands back an array, so .map is safe.
RECURSIVE RisksOnlyLoop(_, _, _, _, _)
RisksOnlyLoop(llm, todo, context, fixedType, risks) ==
  IF todo = <<>> THEN [thrown |-> FALSE, risks |-> risks, opportunities |-> <<>>]
  ELSE LET dataItem == Head(todo)[2]
           sourceType == IF context = "global_risk" THEN "global_news" ELSE Head(todo)[1]
           analysis == analyzeItemRisksOnly(llm, Head(todo)[3], sourceType,
                                            Payload(dataItem), context)
           r == Get(analysis, "risks")
       IN RisksOnlyLoop(llm, Tail(todo), context, fixedType,
                        IF HasLength(r) THEN risks \o TagAll(r.v, fixedType, dataItem)
                        ELSE risks)

analyzeGlobalRisk(llm, order, newsData, resps) ==
  RisksOnlyLoop(llm, Flatten(order, newsData, resps), "global_risk", "global_news", <<>>)

analyzeShippingDisruptions(llm, order, routeData, resps) ==
  RisksOnlyLoop(llm, Flatten(order, routeData, resps), "shipping_routes", "shipping", <<>>)

\* ------------------------------------------------------- Run Coordinator
VARIABLES
  isRunning,       \* AgentService.isRunning
  tasks,           \* the handler invocations: position and local variables
  agentStatus,     \* the agent_status row (the Run Status singleton)
  risks,           \* riskRepository rows, in insertion order (id = index)
  opportunities,   \* opportunityRepository rows
  plans,           \* mitigationPlanRepository rows
  scores,          \* riskScoreRepository rows (append-only snapshots)
  started,         \* triggers that started a cycle (timer ticks and manual calls)
  dropped,         \* triggers that met a running cycle and returned at once
  lastCycle,       \* how the most recent cycle ended
  reply,           \* what the caller of the latest trigger has been answered
  llm,             \* AgentOrchestratorService.llm is set
  oemRows,         \* what oemsService.findAll() returns
  dataSources,     \* keys of DataSourceManagerService.dataSources
  fetchIn, fetchOut,      \* one call of fetchDataSourcesByTypes on its own
  analyzeIn, analyzeOut,  \* one call of the Analysis Engine on its own
  callIn, callOut         \* one call of a plan generator, a rule or the score

coordVars == <<isRunning, tasks, agentStatus, risks, opportunities, plans, scores,
               started, dropped, lastCycle, reply, llm, oemRows, dataSources>>
fetchVars == <<fetchIn, fetchOut>>
analyzeVars == <<analyzeIn, analyzeOut>>
callVars == <<callIn, callOut>>
storeVars == <<risks, opportunities, plans, scores>>
envVars == <<started, dropped, llm, oemRows, dataSources, fetchVars, analyzeVars,
            callVars>>
vars == <<isRunning, tasks, agentStatus, risks, opportunities, plans, scores,
          started, dropped, lastCycle, reply, llm, oemRows, dataSources, fetchIn,
          fetchOut,
          analyzeIn, analyzeOut, callIn, callOut>>

TaskIds == 1..MaxTasks
OemIds == {"oem1", "oem2"}
\* a tenant id nobody registered
UnknownOem == "oem9"
\* triggerManualAnalysis(oemId): an id, or none (undefined)
NoOemId == "none"
\* the ids the manual trigger is called with
ManualIds == {"oem1", UnknownOem, NoOemId}

\* error.message of the two kinds of failure a cycle meets
DbError == "connection lost"
TypeError == "analysis.risks.map is not a function"

NoRow == [status |-> "absent"]

\* lastCycle: how the most recent cycle ended (none yet, or still running)
NoCycle == [origin |-> "none", failed |-> "", escaped |-> FALSE]

\* The cycle of `task` is over: `failed` is the message of the exception
\* that ended it ("" when none did), `escaped` whether the handler threw.
Ended(task, msg, escaped) ==
  [origin |-> task.origin, failed |-> IF task.err # "" THEN task.err ELSE msg,
   escaped |-> escaped]

\* What triggerManualAnalysis' promise does when it settles.
Resolved == "resolved"
Rejected == "rejected"

\* AgentController.triggerAnalysis: await triggerManualAnalysis(oemId), then
\* return the acknowledgment; a rejection leaves the controller and the
\* framework answers 500.
triggerAnalysis(settled) ==
  IF settled = Resolved
  THEN [statusCode |-> 201, message |-> "Analysis triggered successfully"]
  ELSE [statusCode |-> 500, message |-> "Internal server error"]

\* origin: the code a handler runs, "all" for monitorAndAnalyze (entered by
\* the timer or by triggerManualAnalysis()), "one" for the single-tenant
\* branch of triggerManualAnalysis(oemId); http: a request awaits the handler.
IdleTask ==
  [pc |-> "idle", origin |-> "none", http |-> FALSE, oems |-> <<>>, idx |-> 0,
   scope |-> "none", fetched |-> EmptyMap, pendR |-> <<>>, pendO |-> <<>>, allRisks |-> <<>>,
   groups |-> <<>>, todo |-> <<>>, err |-> ""]

\* reply: nothing yet, or the trigger was a timer tick, which has no caller
NoReply == [statusCode |-> 0, message |-> ""]

\* the response a request gets once the call it awaits has settled; the
\* end of a handler the timer started answers nobody
Respond(task, settled) ==
  IF task.http THEN triggerAnalysis(settled) ELSE reply

\* onModuleInit has created the agent_status row and registered the five
\* connectors; the repositories are empty.
CoordInit ==
  /\ isRunning = FALSE
  /\ tasks = [t \in TaskIds |-> IdleTask]
  /\ agentStatus = [status |-> "idle", currentTask |-> <<>>, risksDetected |-> 0,
                    opportunitiesIdentified |-> 0, plansGenerated |-> 0]
  /\ risks = <<>>
  /\ opportunities = <<>>
  /\ plans = <<>>
  /\ scores = <<>>
  /\ started = 0
  /\ dropped = 0
  /\ lastCycle = NoCycle
  /\ reply = NoReply
  /\ llm = TRUE
  /\ oemRows \in {<<>>, <<"oem1">>, <<"oem1", "oem2">>}
  /\ dataSources = SourceTypes

\* if (this.isRunning) { warn; return; }
AlreadyRunningMutOff(running) == FALSE

AlreadyRunning(running) == running

\* The slot a new handler invocation takes: the lowest free one.
FreeTask(t) ==
  /\ tasks[t].pc = "idle"
  /\ \A u \in TaskIds : u < t => tasks[u].pc # "idle"

\* @Cron(EVERY_5_MINUTES) monitorAndAnalyze(), up to its first await
TimerTick(t) ==
  /\ started + dropped < MaxTriggers
  /\ FreeTask(t)
  /\ IF AlreadyRunning(isRunning)
     THEN /\ dropped' = dropped + 1
          /\ UNCHANGED <<isRunning, tasks, lastCycle, started>>
     ELSE /\ isRunning' = TRUE
          /\ started' = started + 1
          /\ UNCHANGED dropped
          /\ lastCycle' = NoCycle
          /\ tasks' = [tasks EXCEPT ![t] = [IdleTask EXCEPT !.pc = "findAll",
                                                            !.origin = "all"]]
  /\ reply' = NoReply
  /\ UNCHANGED <<agentStatus, risks, opportunities, plans, scores, llm,
                 oemRows, dataSources, fetchVars, analyzeVars, callVars>>

\* triggerManualAnalysis(oemId), up to its first await.  Without an id it
\* calls monitorAndAnalyze, which tests isRunning again in the same turn.
\* Its caller is AgentController.triggerAnalysis, which awaits it: a call
\* that returns at once is answered at once, the others when they end.
TriggerManualAnalysis(t, oemId) ==
  /\ started + dropped < MaxTriggers
  /\ FreeTask(t)
  /\ IF AlreadyRunning(isRunning)
     THEN /\ dropped' = dropped + 1
          /\ reply' = Respond([IdleTask EXCEPT !.http = TRUE], Resolved)
          /\ UNCHANGED <<isRunning, tasks, lastCycle, started>>
     ELSE /\ isRunning' = TRUE
          /\ started' = started + 1
          /\ UNCHANGED dropped
          /\ reply' = NoReply
          /\ lastCycle' = NoCycle
          /\ tasks' = [tasks EXCEPT ![t] =
               IF oemId # NoOemId
               THEN [IdleTask EXCEPT !.pc = "getScope", !.origin = "one",
                                     !.http = TRUE,
                                     !.oems = <<oemId>>, !.idx = 1]
               ELSE [IdleTask EXCEPT !.pc = "findAll", !.origin = "all",
                                     !.http = TRUE]]
  /\ UNCHANGED <<agentStatus, risks, opportunities, plans, scores, llm,
                 oemRows, dataSources, fetchVars, analyzeVars, callVars>>

\* updateStatus(status, task): writes the row only when it exists
updateStatus(row, status, task) ==
  IF row = NoRow THEN row
  ELSE [row EXCEPT !.status = status, !.currentTask = task]

\* if (status) { status.risksDetected = await count(); ...; save(status) }
updateCounters(row, r, o, p) ==
  IF row = NoRow THEN row
  ELSE [row EXCEPT !.risksDetected = r, !.opportunitiesIdentified = o,
                   !.plansGenerated = p]

\* The awaits that are an updateStatus call: phase, task text, next position.
StatusPcs == {"manualMon", "mon1", "an1", "proc1", "mon2", "mon3", "noOems",
              "toIdle", "catch"}

\* the AgentStatus each call passes
PhaseAtMutLinear(pc) ==
  CASE pc \in {"manualMon", "mon1"} -> "monitoring"
    [] pc = "an1" -> "analyzing"
    [] pc \in {"proc1", "mon2", "mon3"} -> "processing"
    [] pc \in {"noOems", "toIdle"} -> "idle"
    [] OTHER -> "error"

PhaseAt(pc) ==
  CASE pc \in {"manualMon", "mon1", "mon2", "mon3"} -> "monitoring"
    [] pc = "an1" -> "analyzing"
    [] pc = "proc1" -> "processing"
    [] pc \in {"noOems", "toIdle"} -> "idle"
    [] OTHER -> "error"

StatusAt(task) ==
  CASE task.pc = "manualMon" ->
         <<PhaseAt(task.pc), <<"Manual run for OEM: ", task.scope>>, "mon1">>
    [] task.pc = "mon1" ->
         <<PhaseAt(task.pc), <<"Fetching weather & news for OEM: ", task.scope>>, "fetch1">>
    [] task.pc = "an1" ->
         <<PhaseAt(task.pc), <<"Analyzing weather & news for OEM: ", task.scope>>, "analyze1">>
    [] task.pc = "proc1" ->
         <<PhaseAt(task.pc), <<"Saving supplier-scoped results for OEM: ", task.scope>>,
           "save1">>
    [] task.pc = "mon2" ->
         <<PhaseAt(task.pc), <<"Fetching global news for risk assessment">>, "fetch2">>
    [] task.pc = "mon3" ->
         <<PhaseAt(task.pc), <<"Fetching shipping routes for OEM: ", task.scope>>, "fetch3">>
    [] task.pc = "noOems" -> <<PhaseAt(task.pc), <<"No OEMs to process">>, "release">>
    [] task.pc = "toIdle" ->
         <<PhaseAt(task.pc), IF task.origin = "one" THEN <<"Manual analysis completed">>
                             ELSE <<"Monitoring cycle completed">>, "release">>
    [] task.pc = "catch" -> <<PhaseAt(task.pc), <<"Error: ", task.err>>, "release">>

\* The save loops of a stage end at the next await of runAnalysisForOem.
AfterSaveMutSwap(stage) ==
  CASE stage = 1 -> "mon3" [] stage = 3 -> "mon2" [] OTHER -> "loadRisks"

AfterSave(stage) ==
  CASE stage = 1 -> "mon2" [] stage = 2 -> "mon3" [] OTHER -> "loadRisks"

SavePc(stage) == CASE stage = 1 -> "save1" [] stage = 2 -> "save2" [] OTHER -> "save3"

EnterSave(stage, pendR, pendO) ==
  IF pendR = <<>> /\ pendO = <<>> THEN AfterSave(stage) ELSE SavePc(stage)

UpdateStatusStep(t) ==
  /\ tasks[t].pc \in StatusPcs
  /\ LET s == StatusAt(tasks[t])
     IN /\ agentStatus' = updateStatus(agentStatus, s[1], s[2])
        /\ tasks' = [tasks EXCEPT
             ![t].pc = IF s[3] = "save1" THEN EnterSave(1, tasks[t].pendR, tasks[t].pendO)
                       ELSE s[3]]
  /\ UNCHANGED <<isRunning, storeVars, lastCycle, reply, envVars>>

\* finally { this.isRunning = false; }: the value the guard is left with
FinallyMutKeep == TRUE

Finally == FALSE

\* the handler returns normally after its last await
Release(t) ==
  /\ tasks[t].pc = "release"
  /\ isRunning' = Finally
  /\ tasks' = [tasks EXCEPT ![t] = IdleTask]
  /\ lastCycle' = Ended(tasks[t], "", FALSE)
  /\ reply' = Respond(tasks[t], Resolved)
  /\ UNCHANGED <<agentStatus, storeVars, envVars>>

\* createResult(data): the Signal Record a connector returns
createResult(type, data) == [sourceType |-> T(type), data |-> JsObj(data)]

\* The record each connector returns during a cycle.
SampleItem(type) ==
  CASE type = "weather" ->
         createResult(type, [condition |-> T("Storm"), city |-> T("Chennai"),
                             country |-> T("IN")])
    [] type = "news" ->
         createResult(type, [title |-> JsStr(<<"Port", "Disruption">>)])
    [] type = "traffic" ->
         createResult(type, [origin |-> T("A"), destination |-> T("B"),
                             estimatedDelay |-> JsNum(90),
                             congestionLevel |-> T("low"),
                             routeStatus |-> T("delayed")])
    [] type = "market" ->
         createResult(type, [commodity |-> T("steel"), priceChangePercent |-> JsNum(-8),
                             priceChange |-> JsNum(-8)])
    [] OTHER ->
         createResult(type, [origin |-> T("A"), destination |-> T("B"),
                             status |-> T("disrupted"), delayDays |-> JsNum(3)])

SampleData == [type \in SourceTypes |-> <<SampleItem(type)>>]

\* Risks and opportunities a model backend may put in its answer.
LlmRisks ==
  { [title |-> T("Supplier outage"), severity |-> T("high"),
     affectedSupplier |-> T("Acme")] }

LlmOpps == { [title |-> T("Cheaper steel"), type |-> T("cost_saving")] }

\* JSON objects a backend may answer with: the expected shape, an object
\* without the fields, and fields that are no lists.
ParsedObjs ==
  { [risks |-> JsList(<<>>), opportunities |-> JsList(<<>>)] }
  \cup { [risks |-> JsList(<<r>>), opportunities |-> JsList(<<>>)] : r \in LlmRisks }
  \cup { [risks |-> JsList(<<>>), opportunities |-> JsList(<<o>>)] : o \in LlmOpps }
  \cup { [risks |-> JsList(<<r>>)] : r \in LlmRisks }
  \cup { [note |-> T("nothing found")],
         [risks |-> T("none"), opportunities |-> JsList(<<>>)],
         [risks |-> JsList(<<>>), opportunities |-> T("none")],
         [risks |-> JsNum(0), opportunities |-> JsNum(0)] }

LlmResponses ==
  { [kind |-> k] : k \in RespKinds \ {"json"} }
  \cup { [kind |-> "json", parsed |-> p] : p \in ParsedObjs }

\* The answers to the prompts of one stage: one per fetched item.
RespsFor(map) ==
  IF llm
  THEN { f \in [DOMAIN map -> {<<>>} \cup {<<r>> : r \in LlmResponses}] :
           \A k \in DOMAIN map : Len(f[k]) = Len(map[k]) }
  ELSE { [k \in DOMAIN map |-> [i \in 1..Len(map[k]) |-> [kind |-> "throws"]]] }

\* ---- the stores
RiskIds == 1..Len(risks)
OppIds == 1..Len(opportunities)

\* s.trim(): blanks removed at both ends
RECURSIVE TrimLeft(_)
TrimLeft(s) == IF s # <<>> /\ Head(s) = " " THEN TrimLeft(Tail(s)) ELSE s

RECURSIVE TrimRight(_)
TrimRight(s) ==
  IF s # <<>> /\ s[Len(s)] = " " THEN TrimRight(SubSeq(s, 1, Len(s) - 1)) ELSE s

Trim(s) == TrimRight(TrimLeft(s))

\* (risk.affectedSupplier || '').trim()
SupplierKeyMutNoTrim(risk) == Str(JsOr(risk.affectedSupplier, JsStr(<<>>)))

SupplierKey(risk) == Trim(Str(JsOr(risk.affectedSupplier, JsStr(<<>>))))

\* saveRisk(riskData, oemId): the row created (the columns a cycle reads
\* back: owner, status, severity, affected supplier)
saveRiskMutNoOwner(riskData, oemId) ==
  [oemId |-> NoOemId, status |-> "detected",
   severity |-> JsOr(Get(riskData, "severity"), T("medium")),
   affectedSupplier |-> Get(riskData, "affectedSupplier")]

saveRisk(riskData, oemId) ==
  [oemId |-> oemId, status |-> "detected",
   severity |-> JsOr(Get(riskData, "severity"), T("medium")),
   affectedSupplier |-> Get(riskData, "affectedSupplier")]

\* saveOpportunity(opportunityData, oemId)
saveOpportunity(opportunityData, oemId) ==
  [oemId |-> oemId, status |-> "identified",
   type |-> JsOr(Get(opportunityData, "type"), T("cost_saving"))]

\* the rows the save loops of a stage will create, in order
RiskRows(list, oemId) == [i \in 1..Len(list) |-> saveRisk(list[i], oemId)]

OpportunityRows(list, oemId) == [i \in 1..Len(list) |-> saveOpportunity(list[i], oemId)]

\* saveMitigationPlan(planData, riskId, opportunityId); 0 is no id.
\* metadata.combinedForSupplier is kept from planData.
saveMitigationPlanMutApproved(combinedFor, riskId, opportunityId) ==
  [status |-> "approved", riskId |-> riskId, opportunityId |-> opportunityId,
   combinedForSupplier |-> combinedFor]

saveMitigationPlan(combinedFor, riskId, opportunityId) ==
  [status |-> "draft", riskId |-> riskId, opportunityId |-> opportunityId,
   combinedForSupplier |-> combinedFor]

\* risk.mitigationPlans / opportunity.mitigationPlans (the relation)
PlansOfRisk(id) == {p \in 1..Len(plans) : plans[p].riskId = id}
PlansOfOpp(id) == {p \in 1..Len(plans) : plans[p].opportunityId = id}

\* the ids 1..n in order
IdSeq(n) == [i \in 1..n |-> i]

\* riskRepository.find({ where: { oemId, status: DETECTED } })
DetectedRisks(oemId) ==
  SelectSeq(IdSeq(Len(risks)),
            LAMBDA id : risks[id].oemId = oemId /\ risks[id].status = "detected")

\* keys of risksBySupplier, in insertion order
RECURSIVE SupplierKeys(_)
SupplierKeys(ids) ==
  IF ids = <<>> THEN <<>>
  ELSE LET before == SupplierKeys(SubSeq(ids, 1, Len(ids) - 1))
           key == SupplierKey(risks[ids[Len(ids)]])
       IN IF key = <<>> \/ (\E i \in 1..Len(before) : before[i] = key)
          THEN before ELSE Append(before, key)

\* risksBySupplier.get(key): the group's risks, in allRisks order
GroupOf(ids, key) == SelectSeq(ids, LAMBDA id : SupplierKey(risks[id]) = key)

\* ---- monitorAndAnalyze / triggerManualAnalysis, await by await

\* const oems = await this.oemsService.findAll()
FindAll(t) ==
  /\ tasks[t].pc = "findAll"
  /\ tasks' = [tasks EXCEPT ![t].oems = oemRows,
                            ![t].idx = 1,
                            ![t].pc = IF oemRows = <<>> THEN "noOems" ELSE "getScope"]
  /\ UNCHANGED <<isRunning, agentStatus, storeVars, lastCycle, reply, envVars>>

\* where a handler goes on when runAnalysisForOem has returned, or when the
\* loop skips a tenant without scope
AfterOemMutFirstOnly(task) == [task EXCEPT !.pc = "counters"]

AfterOem(task) ==
  IF task.origin # "one" /\ task.idx < Len(task.oems)
  THEN [task EXCEPT !.idx = @ + 1, !.pc = "getScope", !.scope = "none"]
  ELSE [task EXCEPT !.pc = "counters"]

\* const scope = await this.getOemScope(id); null when the tenant is unknown.
\* In triggerManualAnalysis that is `return` inside try, so finally runs.
GetScope(t) ==
  /\ tasks[t].pc = "getScope"
  /\ LET id == tasks[t].oems[tasks[t].idx]
         found == \E i \in 1..Len(oemRows) : oemRows[i] = id
     IN IF found
        THEN /\ tasks' = [tasks EXCEPT ![t].scope = id,
                            ![t].pc = IF tasks[t].origin = "one" THEN "manualMon"
                                      ELSE "mon1"]
             /\ UNCHANGED <<isRunning, lastCycle, reply>>
        ELSE IF tasks[t].origin = "one"
        THEN /\ isRunning' = Finally
             /\ tasks' = [tasks EXCEPT ![t] = IdleTask]
             /\ lastCycle' = Ended(tasks[t], "", FALSE)
             /\ reply' = Respond(tasks[t], Resolved)
        ELSE /\ tasks' = [tasks EXCEPT ![t] = AfterOem(tasks[t])]
             /\ UNCHANGED <<isRunning, lastCycle, reply>>
  /\ UNCHANGED <<agentStatus, storeVars, envVars>>

StageOf(pc) ==
  CASE pc \in {"fetch1", "analyze1", "save1"} -> 1
    [] pc \in {"fetch2", "analyze2", "save2"} -> 2
    [] OTHER -> 3

StageTypes(stage) ==
  CASE stage = 1 -> <<"weather", "news">>
    [] stage = 2 -> <<"news">>
    [] OTHER -> <<"traffic", "shipping">>

Range(s) == {s[i] : i \in 1..Len(s)}

ItemCount(map) ==
  LET RECURSIVE Sum(_)
      Sum(S) == IF S = {} THEN 0
                ELSE LET k == CHOOSE x \in S : TRUE IN Len(map[k]) + Sum(S \ {k})
  IN Sum(DOMAIN map)

\* catch (error) { ...; await this.updateStatus(ERROR, error.message) } of
\* monitorAndAnalyze: the loop over the tenants is left
CatchBlockMutContinue(task, msg) == AfterOem([task EXCEPT !.err = msg])

CatchBlock(task, msg) == [task EXCEPT !.pc = "catch", !.err = msg]

\* An await rejects.  monitorAndAnalyze catches it, unless it is thrown by
\* the catch block itself; the single-tenant branch of
\* triggerManualAnalysis has finally without catch.  Where nothing catches,
\* finally runs and the exception leaves the handler.
Raise(t, msg) ==
  IF tasks[t].origin = "one" \/ tasks[t].pc = "catch"
  THEN /\ isRunning' = Finally
       /\ tasks' = [tasks EXCEPT ![t] = IdleTask]
       /\ lastCycle' = Ended(tasks[t], msg, TRUE)
       /\ reply' = Respond(tasks[t], Rejected)
  ELSE /\ tasks' = [tasks EXCEPT ![t] = CatchBlock(tasks[t], msg)]
       /\ UNCHANGED <<isRunning, lastCycle, reply>>

\* await this.dataSourceManager.fetchDataSourcesByTypes(types, params)
Fetch(t) ==
  /\ tasks[t].pc \in {"fetch1", "fetch2", "fetch3"}
  /\ LET stage == StageOf(tasks[t].pc)
         types == StageTypes(stage)
         returned == { FetchDataSourcesByTypes(types, dataSources, outcome, SampleData) :
                         outcome \in [Range(types) -> ConnOutcomes] }
     IN \E got \in returned :
             /\ got.thrown \/ Len(risks) + ItemCount(got.results) <= MaxRisks
             /\ IF got.thrown
                THEN Raise(t, DbError)
                ELSE /\ tasks' = [tasks EXCEPT ![t].fetched = got.results,
                                    ![t].pc = CASE stage = 1 -> "an1"
                                                [] stage = 2 -> "analyze2"
                                                [] OTHER -> "analyze3"]
                     /\ UNCHANGED <<isRunning, lastCycle, reply>>
  /\ UNCHANGED <<agentStatus, storeVars, envVars>>

\* await this.agentOrchestrator.analyzeData / analyzeGlobalRisk /
\* analyzeShippingDisruptions
Analyze(t) ==
  /\ tasks[t].pc \in {"analyze1", "analyze2", "analyze3"}
  /\ LET stage == StageOf(tasks[t].pc)
         types == StageTypes(stage)
         map == tasks[t].fetched
         returned ==
           { CASE stage = 1 -> analyzeData(llm, types, map, resps)
               [] stage = 2 -> analyzeGlobalRisk(llm, types, map, resps)
               [] OTHER -> analyzeShippingDisruptions(llm, types, map, resps) :
             resps \in RespsFor(map) }
     IN \E out \in returned :
             /\ out.thrown \/ Len(opportunities) + Len(out.opportunities) <= MaxOpps
             /\ IF out.thrown
                THEN Raise(t, TypeError)
                ELSE /\ tasks' = [tasks EXCEPT
                          ![t].fetched = EmptyMap,
                          ![t].pendR = RiskRows(out.risks, tasks[t].scope),
                          ![t].pendO = OpportunityRows(out.opportunities,
                                                       tasks[t].scope),
                          ![t].pc = IF stage = 1 THEN "proc1"
                                    ELSE EnterSave(stage, out.risks, <<>>)]
                     /\ UNCHANGED <<isRunning, lastCycle, reply>>
  /\ UNCHANGED <<agentStatus, storeVars, envVars>>

\* one await this.saveRisk(riskData, oemId) or this.saveOpportunity(...)
Save(t) ==
  /\ tasks[t].pc \in {"save1", "save2", "save3"}
  /\ LET task == tasks[t]
         stage == StageOf(task.pc)
     IN IF task.pendR # <<>>
        THEN /\ risks' = Append(risks, Head(task.pendR))
             /\ tasks' = [tasks EXCEPT ![t].pendR = Tail(@),
                            ![t].pc = EnterSave(stage, Tail(task.pendR), task.pendO)]
             /\ UNCHANGED opportunities
        ELSE /\ opportunities' = Append(opportunities, Head(task.pendO))
             /\ tasks' = [tasks EXCEPT ![t].pendO = Tail(@),
                            ![t].pc = EnterSave(stage, <<>>, Tail(task.pendO))]
             /\ UNCHANGED risks
  /\ UNCHANGED <<isRunning, agentStatus, plans, scores, lastCycle, reply, envVars>>

\* const allRisks = await this.riskRepository.find({ oemId, DETECTED })
LoadRisks(t) ==
  /\ tasks[t].pc = "loadRisks"
  /\ tasks' = [tasks EXCEPT ![t].allRisks = DetectedRisks(tasks[t].scope),
                            ![t].pc = "saveScore"]
  /\ UNCHANGED <<isRunning, agentStatus, storeVars, lastCycle, reply, envVars>>

\* await this.riskScoreRepository.save({ oemId, ..., riskIds }); then
\* risksBySupplier is built from allRisks
SaveScore(t) ==
  /\ tasks[t].pc = "saveScore"
  /\ scores' = Append(scores, [oemId |-> tasks[t].scope, riskIds |-> tasks[t].allRisks])
  /\ LET keys == SupplierKeys(tasks[t].allRisks)
     IN tasks' = [tasks EXCEPT ![t].groups = keys,
                               ![t].pc = IF keys = <<>> THEN "loadNeed" ELSE "combined"]
  /\ UNCHANGED <<isRunning, agentStatus, risks, opportunities, plans, lastCycle, reply, envVars>>

\* one turn of the loop over risksBySupplier.entries(): generate the
\* combined plan and save it on the group's first risk
Combined(t) ==
  /\ tasks[t].pc = "combined"
  /\ LET supplierName == Head(tasks[t].groups)
         group == GroupOf(tasks[t].allRisks, supplierName)
     IN plans' = Append(plans, saveMitigationPlan(supplierName, group[1], 0))
  /\ tasks' = [tasks EXCEPT ![t].groups = Tail(@),
                            ![t].pc = IF Tail(tasks[t].groups) = <<>> THEN "loadNeed"
                                      ELSE "combined"]
  /\ UNCHANGED <<isRunning, agentStatus, risks, opportunities, scores, lastCycle, reply, envVars>>

\* risksNeedingPlan = await find({ oemId, DETECTED }, relations); the loop
\* skips a risk that has a plan or whose supplier has a group
NeedsPlanMutNoGroups(allRisks, id) == PlansOfRisk(id) = {}

NeedsPlan(allRisks, id) ==
  /\ PlansOfRisk(id) = {}
  /\ ~(\E i \in 1..Len(SupplierKeys(allRisks)) :
          SupplierKeys(allRisks)[i] = SupplierKey(risks[id]))

LoadNeed(t) ==
  /\ tasks[t].pc = "loadNeed"
  /\ LET need == SelectSeq(DetectedRisks(tasks[t].scope),
                           LAMBDA id : NeedsPlan(tasks[t].allRisks, id))
     IN tasks' = [tasks EXCEPT ![t].todo = need,
                               ![t].pc = IF need = <<>> THEN "loadOpps" ELSE "individual"]
  /\ UNCHANGED <<isRunning, agentStatus, storeVars, lastCycle, reply, envVars>>

\* generateMitigationPlan(risk), saveMitigationPlan(plan, risk.id)
Individual(t) ==
  /\ tasks[t].pc = "individual"
  /\ plans' = Append(plans, saveMitigationPlan(<<>>, Head(tasks[t].todo), 0))
  /\ tasks' = [tasks EXCEPT ![t].todo = Tail(@),
                            ![t].pc = IF Tail(tasks[t].todo) = <<>> THEN "loadOpps"
                                      ELSE "individual"]
  /\ UNCHANGED <<isRunning, agentStatus, risks, opportunities, scores, lastCycle, reply, envVars>>

\* opportunities = await find({ IDENTIFIED, oemId }, relations)
LoadOpps(t) ==
  /\ tasks[t].pc = "loadOpps"
  /\ LET need == SelectSeq(IdSeq(Len(opportunities)),
                   LAMBDA id : /\ opportunities[id].oemId = tasks[t].scope
                               /\ opportunities[id].status = "identified"
                               /\ PlansOfOpp(id) = {})
     IN tasks' = [tasks EXCEPT ![t] =
                    IF need = <<>> THEN AfterOem(tasks[t])
                    ELSE [tasks[t] EXCEPT !.todo = need, !.pc = "oppPlans"]]
  /\ UNCHANGED <<isRunning, agentStatus, storeVars, lastCycle, reply, envVars>>

\* generateOpportunityPlan(opportunity), saveMitigationPlan(plan, null, id)
OppPlans(t) ==
  /\ tasks[t].pc = "oppPlans"
  /\ plans' = Append(plans, saveMitigationPlan(<<>>, 0, Head(tasks[t].todo)))
  /\ tasks' = [tasks EXCEPT ![t] =
                 IF Tail(tasks[t].todo) = <<>>
                 THEN AfterOem([tasks[t] EXCEPT !.todo = <<>>])
                 ELSE [tasks[t] EXCEPT !.todo = Tail(@)]]
  /\ UNCHANGED <<isRunning, agentStatus, risks, opportunities, scores, lastCycle, reply, envVars>>

\* status.risksDetected = count(), ...; save(status)
Counters(t) ==
  /\ tasks[t].pc = "counters"
  /\ agentStatus' = updateCounters(agentStatus, Len(risks), Len(opportunities),
                                   Len(plans))
  /\ tasks' = [tasks EXCEPT ![t].pc = "toIdle"]
  /\ UNCHANGED <<isRunning, storeVars, lastCycle, reply, envVars>>

\* The awaits on the database: each may reject instead of returning.
DbPcs == StatusPcs \cup {"findAll", "getScope", "save1", "save2", "save3", "loadRisks",
                         "saveScore", "combined", "loadNeed", "individual", "loadOpps",
                         "oppPlans", "counters"}

StepThrows(t) ==
  /\ tasks[t].pc \in DbPcs
  /\ Raise(t, DbError)
  /\ UNCHANGED <<agentStatus, storeVars, envVars>>

\* RisksService.update(id, { status }): a user moves a risk out of detected
UpdateRisk(id) ==
  /\ id \in RiskIds
  /\ risks[id].status = "detected"
  /\ Cardinality({r \in RiskIds : risks[r].status # "detected"}) < MaxResolved
  /\ risks' = [risks EXCEPT ![id].status = "resolved"]
  /\ UNCHANGED <<isRunning, tasks, agentStatus, opportunities, plans, scores, lastCycle, reply, envVars>>

PureInit ==
  /\ fetchIn = [types |-> <<>>, registered |-> {}, outcome |-> <<>>]
  /\ fetchOut = [done |-> FALSE]
  /\ analyzeIn = [entry |-> "none"]
  /\ analyzeOut = [done |-> FALSE]
  /\ callIn = [fn |-> "none"]
  /\ callOut = [done |-> FALSE]

Init == CoordInit /\ PureInit

Next ==
  \/ \E t \in TaskIds : TimerTick(t)
  \/ \E t \in TaskIds : \E oemId \in ManualIds :
       TriggerManualAnalysis(t, oemId)
  \/ \E t \in TaskIds : FindAll(t)
  \/ \E t \in TaskIds : GetScope(t)
  \/ \E t \in TaskIds : UpdateStatusStep(t)
  \/ \E t \in TaskIds : Fetch(t)
  \/ \E t \in TaskIds : Analyze(t)
  \/ \E t \in TaskIds : Save(t)
  \/ \E t \in TaskIds : LoadRisks(t)
  \/ \E t \in TaskIds : SaveScore(t)
  \/ \E t \in TaskIds : Combined(t)
  \/ \E t \in TaskIds : LoadNeed(t)
  \/ \E t \in TaskIds : Individual(t)
  \/ \E t \in TaskIds : LoadOpps(t)
  \/ \E t \in TaskIds : OppPlans(t)
  \/ \E t \in TaskIds : Counters(t)
  \/ \E t \in TaskIds : Release(t)
  \/ \E t \in TaskIds : StepThrows(t)
  \/ \E id \in 1..MaxRisks : UpdateRisk(id)

Spec == Init /\ [][Next]_vars

\* The awaits on the database (DbPcs and the last return): the event loop
\* runs the continuation once the query has returned or thrown.
DbStep(t) ==
  \/ FindAll(t) \/ GetScope(t) \/ UpdateStatusStep(t) \/ Save(t) \/ LoadRisks(t)
  \/ SaveScore(t) \/ Combined(t) \/ LoadNeed(t) \/ Individual(t) \/ LoadOpps(t)
  \/ OppPlans(t) \/ Counters(t) \/ Release(t) \/ StepThrows(t)

\* The awaits on the connectors and on the analysis backend.
CallPcs == {"fetch1", "fetch2", "fetch3", "analyze1", "analyze2", "analyze3"}

\* Every awaited call returns or throws: the database steps are taken when
\* they can be, and no handler waits for ever on a connector or a backend.
\* Checked with at most one tenant registered: the loop over the tenants
\* is bounded by their number and every tenant runs the same steps.
FairInit == Init /\ Len(oemRows) <= 1

FairSpec ==
  /\ FairInit
  /\ [][Next]_vars
  /\ \A t \in TaskIds : WF_vars(DbStep(t))
  /\ \A t \in TaskIds : (tasks[t].pc \in CallPcs) ~> (tasks[t].pc \notin CallPcs)

\* ---- properties of the Run Coordinator

Running == {t \in TaskIds : tasks[t].pc # "idle"}

Arrival == started' + dropped' # started + dropped

\* C1: Single-flight.  At every moment at most one cycle is in progress and
\* the guard is set while it is; a handler leaves its idle position only in
\* the step of a trigger that found the guard free, so a trigger that found
\* it set starts nothing then or later.
SingleFlight ==
  /\ [](Cardinality(Running) <= 1 /\ (Running # {} => isRunning))
  /\ [][\A t \in TaskIds :
          tasks[t].pc = "idle" /\ tasks'[t].pc # "idle"
            => ~isRunning /\ started' = started + 1 /\ dropped' = dropped]_vars

SingleFlightSeen ==
  /\ dropped = 1
  /\ started = 1
  /\ \E t \in TaskIds : Running = {t} /\ tasks[t].pc = "analyze2"

\* C2: A trigger that arrives while the guard is set changes nothing: the
\* status row (phase, current task, counters), the stored risks,
\* opportunities, plans and snapshots, the guard and the running cycle are
\* the same after it.
RejectedChangesNothing ==
  [][Arrival /\ isRunning
       => UNCHANGED <<agentStatus, risks, opportunities, plans, scores,
                      isRunning, tasks, started>>]_vars

RejectedSeen ==
  /\ dropped = 1
  /\ started = 1
  /\ isRunning
  /\ agentStatus.status = "processing"
  /\ Len(risks) = 1

\* C3: Every accepted trigger eventually releases the guard, whichever way
\* the cycle ends, when every awaited call returns or throws.
GuardReleased == isRunning ~> ~isRunning

\* a cycle whose error handler failed to write the status has released it
ReleasedAfterHandlerFailure ==
  /\ ~isRunning
  /\ lastCycle.origin = "all"
  /\ lastCycle.escaped
  /\ started = 1

\* C4: When a step of a cycle throws, the status row ends in phase error
\* with the exception's message, however the cycle was started.  (The cycle
\* whose error handler itself could not write the row is left aside.)
ErrorRecorded ==
  (/\ ~isRunning
   /\ lastCycle.failed # ""
   /\ ~(lastCycle.origin = "all" /\ lastCycle.escaped))
    => /\ agentStatus.status = "error"
       /\ agentStatus.currentTask = <<"Error: ", lastCycle.failed>>

\* C5: In an all-tenants cycle, once a tenant's run has thrown, nothing more
\* of the cycle is executed: no risk, opportunity, plan or snapshot is
\* stored, the counters of the status row keep their values, and the
\* handler only writes the error and returns; no tenant after it is started.
Counters3(row) == <<row.risksDetected, row.opportunitiesIdentified, row.plansGenerated>>

AbortWholeCycle ==
  [][\A t \in TaskIds :
       tasks[t].err # ""
         => /\ Len(risks') = Len(risks)
            /\ Len(opportunities') = Len(opportunities)
            /\ plans' = plans
            /\ scores' = scores
            /\ Counters3(agentStatus') = Counters3(agentStatus)
            /\ agentStatus'.status \in {agentStatus.status, "error"}
            /\ tasks'[t].pc \in {"catch", "release", "idle"}]_vars

\* the first of two tenants threw after one of its risks was stored
FirstTenantThrew ==
  \E t \in TaskIds :
    /\ tasks[t].pc = "release"
    /\ tasks[t].err # ""
    /\ tasks[t].origin = "all"
    /\ Len(tasks[t].oems) = 2
    /\ tasks[t].idx = 1
    /\ Len(risks) = 1
    /\ agentStatus.status = "error"
    /\ agentStatus.risksDetected = 0

\* C6: A risk or an opportunity never has more than one generated plan
\* attached, whatever the number of cycles: combined supplier plans,
\* individual risk plans and opportunity plans together.
AtMostOnePlan ==
  /\ \A id \in RiskIds : Cardinality(PlansOfRisk(id)) <= 1
  /\ \A id \in OppIds : Cardinality(PlansOfOpp(id)) <= 1

\* C7 as stated: the phase changes only along idle -> monitoring ->
\* analyzing -> processing -> idle, or to error from any phase (and the
\* next cycle leaves error as it leaves idle).
ClaimedEdges ==
  {<<"idle", "monitoring">>, <<"monitoring", "analyzing">>,
   <<"analyzing", "processing">>, <<"processing", "idle">>,
   <<"error", "monitoring">>, <<"error", "idle">>}

PhaseOrderAsStated ==
  [][agentStatus'.status # agentStatus.status
       => \/ agentStatus'.status = "error"
          \/ <<agentStatus.status, agentStatus'.status>> \in ClaimedEdges]_vars

\* C7: Within a cycle the phase changes only along monitoring -> analyzing
\* -> processing -> monitoring (the global-news stage starts), monitoring ->
\* idle (the cycle ends), or to error from any phase.  The first status
\* write of a cycle sets monitoring, or idle when no tenant is registered,
\* whatever phase the previous cycle left.
CycleEdges ==
  {<<"monitoring", "analyzing">>, <<"analyzing", "processing">>,
   <<"processing", "monitoring">>, <<"monitoring", "idle">>}

FirstWrite(task) ==
  \/ task.pc \in {"manualMon", "noOems"}
  \/ task.pc = "mon1" /\ task.origin = "all" /\ task.idx = 1

PhaseOrder ==
  [][agentStatus'.status # agentStatus.status
       => \/ agentStatus'.status = "error"
          \/ <<agentStatus.status, agentStatus'.status>> \in CycleEdges
          \/ \E t \in TaskIds : /\ FirstWrite(tasks[t])
                                /\ agentStatus'.status \in {"monitoring", "idle"}]_vars

\* the phase went from processing back to monitoring
BackToMonitoring ==
  /\ agentStatus.status = "monitoring"
  /\ \E t \in TaskIds : tasks[t].pc = "fetch2" /\ tasks[t].origin = "all"

\* C8: The awaits of runAnalysisForOem in the order of the source text.
RunOrder ==
  <<"manualMon", "mon1", "fetch1", "an1", "analyze1", "proc1", "save1",
    "mon2", "fetch2", "analyze2", "save2",
    "mon3", "fetch3", "analyze3", "save3",
    "loadRisks", "saveScore", "combined", "loadNeed", "individual",
    "loadOpps", "oppPlans">>

Rank(pc) == CHOOSE i \in 1..Len(RunOrder) : RunOrder[i] = pc

SameRun(t) ==
  /\ tasks[t].scope # "none"
  /\ tasks'[t].scope = tasks[t].scope
  /\ tasks[t].pc \in Range(RunOrder)
  /\ tasks'[t].pc \in Range(RunOrder)

\* C8: Within one tenant's run the steps follow the fixed order of the
\* three stages, the snapshot, the combined plans, the individual plans and
\* the opportunity plans.  Risks are stored only in the three stages; the
\* snapshot is stored after them and lists exactly the tenant's risks that
\* were in status detected when step 5 loaded them; a plan is stored only
\* when the snapshot of this run is stored.
FixedOrder ==
  /\ [][\A t \in TaskIds : SameRun(t) => Rank(tasks'[t].pc) >= Rank(tasks[t].pc)]_vars
  /\ [][Len(risks') > Len(risks) \/ Len(opportunities') > Len(opportunities)
          => \E t \in TaskIds : tasks[t].pc \in {"save1", "save2", "save3"}]_vars
  /\ [][\A t \in TaskIds :
          tasks[t].pc = "loadRisks" /\ tasks'[t].pc = "saveScore"
            => /\ tasks[t].pendR = <<>>
               /\ Range(tasks'[t].allRisks) =
                    {id \in RiskIds : /\ risks[id].oemId = tasks[t].scope
                                      /\ risks[id].status = "detected"}]_vars
  /\ [][scores' # scores
          => \E t \in TaskIds :
               /\ tasks[t].pc = "saveScore"
               /\ scores' = Append(scores, [oemId |-> tasks[t].scope,
                                            riskIds |-> tasks[t].allRisks])]_vars
  /\ [][plans' # plans
          => \E t \in TaskIds :
               /\ tasks[t].pc \in {"combined", "individual", "oppPlans"}
               /\ scores # <<>>
               /\ scores[Len(scores)] = [oemId |-> tasks[t].scope,
                                         riskIds |-> tasks[t].allRisks]]_vars

\* a plan is being generated for a run whose snapshot lists one of the two
\* stored risks, the other one being resolved
PlansAfterSnapshot ==
  \E t \in TaskIds :
    /\ tasks[t].pc = "combined"
    /\ Len(risks) = 2
    /\ scores # <<>>
    /\ scores[Len(scores)].riskIds = <<2>>
    /\ risks[1].status = "resolved"

\* ---- the Source Registry on its own: fetchDataSourcesByTypes called with
\* any list of types, any set of registered connectors and any behaviour of
\* each connector
MaxTypes == 2

FetchTypes == {"weather", "news", "traffic"}

TypeLists == UNION { [1..n -> FetchTypes] : n \in 0..MaxTypes }

FetchInit ==
  /\ CoordInit
  /\ oemRows = <<>>
  /\ fetchIn \in [types : TypeLists, registered : SUBSET FetchTypes,
                  outcome : [FetchTypes -> ConnOutcomes]]
  /\ fetchOut = [done |-> FALSE]
  /\ analyzeIn = [entry |-> "none"]
  /\ analyzeOut = [done |-> FALSE]
  /\ callIn = [fn |-> "none"]
  /\ callOut = [done |-> FALSE]

CallFetch ==
  /\ ~fetchOut.done
  /\ LET got == FetchDataSourcesByTypes(fetchIn.types, fetchIn.registered,
                                        fetchIn.outcome, SampleData)
     IN fetchOut' = [done |-> TRUE, thrown |-> got.thrown, results |-> got.results]
  /\ UNCHANGED <<coordVars, storeVars, started, dropped, llm, oemRows, dataSources,
                 fetchIn, analyzeVars, callVars>>

SpecFetch == FetchInit /\ [][CallFetch]_vars

\* C9: fetchDataSourcesByTypes never throws and returns an entry for every
\* requested type: the connector's list when it is registered, available
\* and its fetch succeeds, the empty list otherwise.  The entry of a type
\* depends on that type's connector alone.
FetchIsolated ==
  fetchOut.done
    => /\ ~fetchOut.thrown
       /\ DOMAIN fetchOut.results = Range(fetchIn.types)
       /\ \A type \in Range(fetchIn.types) :
            fetchOut.results[type] =
              IF type \in fetchIn.registered /\ fetchIn.outcome[type] = "ok"
              THEN SampleData[type] ELSE <<>>

\* a connector whose fetch throws, asked before a healthy one
FailingBeforeHealthy ==
  /\ fetchOut.done
  /\ fetchIn.types = <<"weather", "news">>
  /\ fetchIn.registered = {"weather", "news"}
  /\ fetchIn.outcome["weather"] = "fetchThrows"
  /\ fetchIn.outcome["news"] = "ok"
  /\ fetchOut.results["weather"] = <<>>
  /\ fetchOut.results["news"] = SampleData["news"]

\* ---- the Analysis Engine on its own: one of its three entry points called
\* with one fetched item, with or without a backend, and any answer
AnalyzeEntries == {"analyzeData", "analyzeGlobalRisk", "analyzeShippingDisruptions"}

AnalyzeInit ==
  /\ CoordInit
  /\ oemRows = <<>>
  /\ fetchIn = [types |-> <<>>, registered |-> {}, outcome |-> <<>>]
  /\ fetchOut = [done |-> FALSE]
  /\ analyzeIn \in [entry : AnalyzeEntries, llm : BOOLEAN, type : SourceTypes,
                    resp : LlmResponses]
  /\ analyzeOut = [done |-> FALSE]
  /\ callIn = [fn |-> "none"]
  /\ callOut = [done |-> FALSE]

CallAnalyze ==
  /\ ~analyzeOut.done
  /\ LET type == analyzeIn.type
         map == [k \in {type} |-> SampleData[type]]
         resps == [k \in {type} |-> <<analyzeIn.resp>>]
         out == CASE analyzeIn.entry = "analyzeData" ->
                       analyzeData(analyzeIn.llm, <<type>>, map, resps)
                  [] analyzeIn.entry = "analyzeGlobalRisk" ->
                       analyzeGlobalRisk(analyzeIn.llm, <<type>>, map, resps)
                  [] OTHER ->
                       analyzeShippingDisruptions(analyzeIn.llm, <<type>>, map, resps)
     IN analyzeOut' = [done |-> TRUE, thrown |-> out.thrown, risks |-> out.risks,
                       opportunities |-> out.opportunities]
  /\ UNCHANGED <<coordVars, storeVars, started, dropped, llm, oemRows, dataSources,
                 fetchVars, analyzeIn, callVars>>

SpecAnalyze == AnalyzeInit /\ [][CallAnalyze]_vars

\* the answer is a JSON object with the expected lists
MatchesSchema(entry, resp) ==
  /\ resp.kind = "json"
  /\ IsArray(Get(resp.parsed, "risks"))
  /\ entry = "analyzeData" => IsArray(Get(resp.parsed, "opportunities"))

\* what the rule engine yields for the item, tagged as the entry point tags
FallbackResult(entry, type) ==
  LET item == SampleData[type][1]
  IN CASE entry = "analyzeData" ->
            [risks |-> TagAll(mockAnalyzeDataItem(type, item).risks.v, type, item),
             opportunities |->
               TagAll(mockAnalyzeDataItem(type, item).opportunities.v, type, item)]
       [] entry = "analyzeGlobalRisk" ->
            [risks |-> TagAll(mockAnalyzeItemRisksOnly("global_news", Payload(item),
                                                       "global_risk").risks.v,
                              "global_news", item),
             opportunities |-> <<>>]
       [] OTHER ->
            [risks |-> TagAll(mockAnalyzeItemRisksOnly(type, Payload(item),
                                                       "shipping_routes").risks.v,
                              "shipping", item),
             opportunities |-> <<>>]

\* C10: No entry point of the Analysis Engine throws, and without a
\* backend, when the call raises, or when the answer is no JSON object with
\* the expected lists, it returns the rule engine's result for the item.
BackendNeverPropagates ==
  analyzeOut.done
    => /\ ~analyzeOut.thrown
       /\ (~analyzeIn.llm \/ ~MatchesSchema(analyzeIn.entry, analyzeIn.resp))
            => /\ analyzeOut.risks = FallbackResult(analyzeIn.entry, analyzeIn.type).risks
               /\ analyzeOut.opportunities =
                    FallbackResult(analyzeIn.entry, analyzeIn.type).opportunities

\* ------------------------------------------------------- Plan Generator
\* 24 * 60 * 60 * 1000
DayMs == 24 * 60 * 60 * 1000

\* new Date(ms).toISOString().split('T')[0]: the UTC calendar day the
\* instant falls in, as the number of days since 1970-01-01
IsoDate(ms) == [t |-> "date", day |-> ms \div DayMs]

\* new Date(Date.now() + days * 24 * 60 * 60 * 1000) as an ISO date
DueDate(now, days) == IsoDate(now + days * DayMs)

\* mockGenerateMitigationPlan(risk)
mockGenerateMitigationPlan(risk, now) ==
  [title |-> JsStr(<<"Mitigation Plan: ">> \o Str(Get(risk, "title"))),
   description |-> JsStr(<<"Comprehensive mitigation strategy to address ">>
                         \o Str(Get(risk, "severity")) \o <<" severity risk">>),
   actions |-> JsList(<<T("Assess immediate impact on operations"),
                        T("Contact affected suppliers for status update"),
                        T("Identify alternative suppliers or routes"),
                        T("Implement contingency logistics plan"),
                        T("Monitor situation and update stakeholders")>>),
   metadata |-> JsObj([riskSeverity |-> Get(risk, "severity"),
                       autoGenerated |-> [t |-> "boolean", v |-> TRUE]]),
   assignedTo |-> T("Supply Chain Team"),
   dueDate |-> DueDate(now, 7)]

\* mockGenerateOpportunityPlan(opportunity)
mockGenerateOpportunityPlan(opportunity, now) ==
  [title |-> JsStr(<<"Action Plan: ">> \o Str(Get(opportunity, "title"))),
   description |-> T("Strategic plan to capitalize on identified opportunity"),
   actions |-> JsList(<<T("Evaluate opportunity feasibility"),
                        T("Calculate potential ROI"),
                        T("Develop implementation timeline"),
                        T("Secure necessary approvals"),
                        T("Execute opportunity capture plan")>>),
   metadata |-> JsObj([opportunityType |-> Get(opportunity, "type"),
                       autoGenerated |-> [t |-> "boolean", v |-> TRUE]]),
   assignedTo |-> T("Strategic Planning Team"),
   dueDate |-> DueDate(now, 14)]

\* risks.map((r) => r.id).filter(Boolean)
RiskIdsOf(list) ==
  JsList(SelectSeq([i \in 1..Len(list) |-> Get(list[i], "id")], Truthy))

\* mockGenerateCombinedMitigationPlan(supplierName, risks)
mockGenerateCombinedMitigationPlan(supplierName, list, now) ==
  [title |-> JsStr(<<"Combined Mitigation Plan: ">> \o supplierName),
   description |-> JsStr(<<"Unified contingency plan for ">> \o supplierName
                         \o <<" addressing ", ToString(Len(list)), " risk(s). Prioritize supplier communication and alternative sourcing.">>),
   actions |-> JsList(<<T("Contact supplier for status and expected recovery"),
                        T("Assess impact on production schedule and customer orders"),
                        T("Identify and qualify backup suppliers or routes"),
                        T("Update inventory and safety stock targets"),
                        T("Document and communicate plan to stakeholders")>>),
   metadata |-> JsObj([combinedForSupplier |-> JsStr(supplierName),
                       riskIds |-> RiskIdsOf(list),
                       riskCount |-> JsNum(Len(list))]),
   assignedTo |-> T("Supply Chain Team"),
   dueDate |-> DueDate(now, 7)]

\* The try block of a generator: llm.invoke, content.match(/\{[\s\S]*\}/),
\* JSON.parse.  `found` says that a plan was parsed.
PlanTry(resp) ==
  CASE resp.kind = "throws" -> [thrown |-> TRUE, found |-> FALSE, plan |-> EmptyMap]
    [] resp.kind = "noJson" -> [thrown |-> FALSE, found |-> FALSE, plan |-> EmptyMap]
    [] resp.kind = "badJson" -> [thrown |-> TRUE, found |-> FALSE, plan |-> EmptyMap]
    [] OTHER -> [thrown |-> FALSE, found |-> TRUE, plan |-> resp.parsed]

\* catch (error) { this.logger.error(...) }: the generator goes on
PlanCatchMutRethrow(tried) == tried

PlanCatch(tried) ==
  IF tried.thrown THEN [thrown |-> FALSE, found |-> FALSE, plan |-> EmptyMap] ELSE tried

\* a generator's result: what it returns, or that it throws
PlanResult(tried, fallback) ==
  IF tried.thrown THEN [thrown |-> TRUE, plan |-> EmptyMap]
  ELSE [thrown |-> FALSE, plan |-> IF tried.found THEN tried.plan ELSE fallback]

\* generateMitigationPlan(risk)
generateMitigationPlan(hasLlm, resp, risk, now) ==
  IF ~hasLlm THEN [thrown |-> FALSE, plan |-> mockGenerateMitigationPlan(risk, now)]
  ELSE PlanResult(PlanCatch(PlanTry(resp)), mockGenerateMitigationPlan(risk, now))

\* generateOpportunityPlan(opportunity)
generateOpportunityPlan(hasLlm, resp, opportunity, now) ==
  IF ~hasLlm THEN [thrown |-> FALSE, plan |-> mockGenerateOpportunityPlan(opportunity, now)]
  ELSE PlanResult(PlanCatch(PlanTry(resp)), mockGenerateOpportunityPlan(opportunity, now))

\* plan.metadata = {...(plan.metadata || {}), combinedForSupplier, riskIds}
WithCombinedMetadata(plan, supplierName, list) ==
  LET old == IF Get(plan, "metadata").t = "object" THEN Get(plan, "metadata").v
             ELSE EmptyMap
      meta == [f \in (DOMAIN old) \cup {"combinedForSupplier", "riskIds"} |->
                 CASE f = "combinedForSupplier" -> JsStr(supplierName)
                   [] f = "riskIds" -> RiskIdsOf(list)
                   [] OTHER -> old[f]]
  IN [f \in (DOMAIN plan) \cup {"metadata"} |->
        IF f = "metadata" THEN JsObj(meta) ELSE plan[f]]

\* generateCombinedMitigationPlanForSupplier(supplierName, risks)
generateCombinedMitigationPlanForSupplier(hasLlm, resp, supplierName, list, now) ==
  IF ~hasLlm
  THEN [thrown |-> FALSE, plan |-> mockGenerateCombinedMitigationPlan(supplierName, list, now)]
  ELSE LET tried == PlanTry(resp)
           parsed == IF tried.found
                     THEN [tried EXCEPT !.plan = WithCombinedMetadata(@, supplierName, list)]
                     ELSE tried
       IN PlanResult(PlanCatch(parsed),
                     mockGenerateCombinedMitigationPlan(supplierName, list, now))

\* ------------------------------------------------------- Risk Scorer
\* const SEVERITY_WEIGHT: Record<string, number> = {...}
SEVERITY_WEIGHT ==
  [critical |-> JsNum(4), high |-> JsNum(3), medium |-> JsNum(2), low |-> JsNum(1)]

\* property names every object literal inherits from Object.prototype
Inherited == {"constructor", "toString", "valueOf", "hasOwnProperty", "__proto__"}

\* obj[key]: an own property, else an inherited one, else undefined
Lookup(obj, key) ==
  IF key \in DOMAIN obj THEN obj[key]
  ELSE IF key \in Inherited THEN [t |-> "function"]
  ELSE Undefined

\* obj[key] = value (the __proto__ setter ignores a value that is no object)
Assign(obj, key, value) ==
  IF key = "__proto__" THEN obj
  ELSE [k \in (DOMAIN obj) \cup {key} |-> IF k = key THEN value ELSE obj[k]]

\* a ?? b
Nullish(a, b) == IF a.t = "undefined" THEN b ELSE a

\* the text of a value that + turns into a string
Text(v) == IF v.t = "function" THEN <<"function () { [native code] }">> ELSE Str(v)

\* a + b: the sum of two numbers, else the concatenation of the two texts
Plus(a, b) ==
  IF a.t = "number" /\ b.t = "number" THEN JsNum(a.v + b.v)
  ELSE JsStr(Text(a) \o Text(b))

\* a string used as a property key (labels are one piece long)
Key(v) == v.v[1]

\* (r.severity || 'medium').toLowerCase()
SevMutNoDefault(r) == Get(r, "severity")

Sev(r) == JsOr(Get(r, "severity"), T("medium"))

\* .toLowerCase() exists on strings only
SevThrows(r) == Sev(r).t # "string"

\* one iteration of for (const r of risks)
ScoreStep(acc, r) ==
  LET sev == LowerWord(Key(Sev(r)))
      weight == Nullish(Lookup(SEVERITY_WEIGHT, sev), JsNum(2))
      src == Key(JsOr(Get(r, "sourceType"), T("other")))
  IN [severityCounts |->
        Assign(acc.severityCounts, sev,
               Plus(JsOr(Lookup(acc.severityCounts, sev), JsNum(0)), JsNum(1))),
      weightedSum |-> Plus(acc.weightedSum, weight),
      breakdown |->
        Assign(acc.breakdown, src,
               Plus(JsOr(Lookup(acc.breakdown, src), JsNum(0)), weight))]

RECURSIVE ScoreLoop(_, _, _)
ScoreLoop(list, i, acc) ==
  IF i > Len(list) THEN acc ELSE ScoreLoop(list, i + 1, ScoreStep(acc, list[i]))

\* Math.round(x) for x = num / den >= 0: the nearest integer, halves upwards
RoundMutFloor(num, den) == num \div den

Round(num, den) == (2 * num + den) \div (2 * den)

\* Math.min(100, Math.round(avgSeverity * 25)), avgSeverity = weightedSum / count;
\* a weightedSum that is no number divides to NaN
NaN == [t |-> "NaN"]

OverallScore(weightedSum, count) ==
  IF count = 0 THEN JsNum(0)
  ELSE IF weightedSum.t # "number" THEN NaN
  ELSE LET rounded == Round(weightedSum.v * 25, count)
       IN JsNum(IF rounded < 100 THEN rounded ELSE 100)

\* computeRiskScore(risks)
computeRiskScore(list) ==
  IF \E i \in 1..Len(list) : SevThrows(list[i])
  THEN [thrown |-> TRUE, overallScore |-> NaN, breakdown |-> EmptyMap,
        severityCounts |-> EmptyMap]
  ELSE LET acc == ScoreLoop(list, 1, [severityCounts |-> EmptyMap,
                                      breakdown |-> EmptyMap,
                                      weightedSum |-> JsNum(0)])
       IN [thrown |-> FALSE,
           overallScore |-> OverallScore(acc.weightedSum, Len(list)),
           breakdown |-> acc.breakdown,
           severityCounts |-> acc.severityCounts]

\* ------------------------------------------------------- Stand-alone calls
\* One call of a plan generator, given what the backend does and the clock.
PlanFns == {"generateMitigationPlan", "generateOpportunityPlan",
            "generateCombinedMitigationPlanForSupplier"}

\* what the backend does with the prompt, and the objects its answer may
\* parse to
PlanResponses ==
  {[kind |-> "throws"], [kind |-> "noJson"], [kind |-> "badJson"]}
    \cup {[kind |-> "json", parsed |-> p] :
            p \in {[title |-> T("Reroute via Rotterdam"),
                    actions |-> JsList(<<T("Call carrier")>>),
                    assignedTo |-> T("Logistics"), dueDate |-> T("2026-01-01")],
                   [title |-> T("Dual sourcing"),
                    metadata |-> JsObj([riskCount |-> JsNum(2)])],
                   [note |-> T("no plan")]}}

\* Date.now(): first and last millisecond of a day, and instants in between
DayStarts == {0, 1, DayMs \div 2, DayMs - 1, DayMs, 2 * DayMs - 1}

RiskEntities ==
  <<[id |-> JsNum(1), title |-> T("Port strike"), severity |-> T("high"),
     affectedSupplier |-> T("Acme")],
    [id |-> JsNum(2), title |-> T("Flooding"), severity |-> T("low"),
     affectedSupplier |-> T("Acme")]>>

OpportunityEntities ==
  <<[id |-> JsNum(1), title |-> T("Cheaper steel"), type |-> T("cost_saving")],
    [id |-> JsNum(2), title |-> T("New lane"), type |-> T("time_saving")]>>

PlanCalls ==
  [fn : PlanFns, llm : BOOLEAN, resp : PlanResponses, now : DayStarts, count : 1..2]

\* what a risk handed to the scorer may carry: severity and sourceType are
\* strings or missing
ScoredRisks ==
  [severity : {Undefined, T("critical"), T("high"), T("medium"), T("low"), T("HIGH"),
               T("severe"), T("constructor")},
   sourceType : {Undefined, T("weather"), T("news"), T("constructor")}]

RECURSIVE ListsUpTo(_, _)
ListsUpTo(S, n) ==
  IF n = 0 THEN {<<>>}
  ELSE ListsUpTo(S, n - 1) \cup
       {Append(l, x) : l \in {m \in ListsUpTo(S, n - 1) : Len(m) = n - 1}, x \in S}

ScoreCalls == [fn : {"computeRiskScore"}, risks : ListsUpTo(ScoredRisks, MaxScored)]

\* Records handed to the fallback rules.  A connector's record carries its
\* payload under data (createResult); the examples of the contract are flat.
WeatherRecords ==
  {[condition |-> c, city |-> T("Chennai"), country |-> T("IN")] :
     c \in {T("Storm"), T("Rain"), T("Clear"), T("storm"), JsStr(<<"Rain", "storm">>)}}
  \cup {[city |-> T("Chennai"), country |-> T("IN")],
        createResult("weather", [condition |-> T("Storm"), city |-> T("Chennai"),
                                 country |-> T("IN")])}

MarketRecords ==
  {[commodity |-> T("steel"), priceChangePercent |-> JsNum(p), priceChange |-> JsNum(c)] :
     p \in {-8, -6, -5, -4, 0}, c \in {-8, 3}}
  \cup {[commodity |-> T("steel"), priceChange |-> JsNum(-8)],
        [commodity |-> T("steel"), priceChangePercent |-> JsNum(-8)]}

ShippingRecords ==
  {[origin |-> T("Shanghai"), destination |-> T("Rotterdam"), status |-> st,
    routeStatus |-> rs, delayDays |-> d] :
     st \in {Undefined, T("disrupted"), T("delayed"), T("normal")},
     rs \in {Undefined, T("delayed")},
     d \in {Undefined, JsNum(0), JsNum(3), JsNum(7), JsNum(8)}}
  \cup {[status |-> T("delayed"), delayDays |-> JsNum(9)]}

GlobalRecords ==
  {[title |-> t, description |-> d] :
     t \in {Undefined, JsStr(<<>>), JsStr(<<"Port", "Disruption">>),
            JsStr(<<"Chip", "shortage">>), T("CRISIS"), JsStr(<<"Quiet", "week">>)},
     d \in {Undefined, JsStr(<<"Fuel", "crisis">>), JsStr(<<"Nothing", "new">>)}}

TrafficRecords ==
  {[origin |-> T("A"), destination |-> T("B"), estimatedDelay |-> JsNum(d),
    congestionLevel |-> c] : d \in {60, 90}, c \in {T("low"), T("severe")}}

FallbackRecords ==
  WeatherRecords \cup MarketRecords \cup ShippingRecords \cup GlobalRecords
    \cup TrafficRecords

\* how the fallback is reached: no backend, a failed call, an unparseable answer
Backends == {"none", "throws", "badJson"}

GeneralCalls ==
  [fn : {"fallback"}, entry : {"analyzeDataItem"},
   sourceType : {"weather", "news", "traffic", "market", "shipping", "global_news"},
   context : {"none"}, record : FallbackRecords, backend : Backends]

RisksOnlyCalls ==
  [fn : {"fallback"}, entry : {"analyzeItemRisksOnly"},
   sourceType : {"global_news", "shipping"},
   context : {"global_risk", "shipping_routes", "other"},
   record : FallbackRecords, backend : Backends]

\* calls made in between two calls with the same input
Disturbers ==
  {[fn |-> "fallback", entry |-> "analyzeDataItem", sourceType |-> "weather",
    context |-> "none", backend |-> "none",
    record |-> [condition |-> T("Storm"), city |-> T("Chennai"), country |-> T("IN")]],
   [fn |-> "fallback", entry |-> "analyzeItemRisksOnly", sourceType |-> "shipping",
    context |-> "shipping_routes", backend |-> "none",
    record |-> [status |-> T("delayed"), delayDays |-> JsNum(9)]]}

\* One call that ends in the fallback.  risks and opportunities are locals of
\* the call (const risks: any[] = []): nothing of the previous call is read.
FallbackCallMutShared(in, previous) ==
  IF in.entry = "analyzeDataItem"
  THEN LET r == analyzeDataItem(in.backend # "none", [kind |-> in.backend],
                                in.sourceType, in.record)
       IN [risks |-> JsList(previous.risks.v \o r.risks.v),
           opportunities |-> JsList(previous.opportunities.v \o r.opportunities.v)]
  ELSE LET r == analyzeItemRisksOnly(in.backend # "none", [kind |-> in.backend],
                                     in.sourceType, in.record, in.context)
       IN [risks |-> JsList(previous.risks.v \o r.risks.v),
           opportunities |-> JsList(<<>>)]

FallbackCall(in, previous) ==
  IF in.entry = "analyzeDataItem"
  THEN LET r == analyzeDataItem(in.backend # "none", [kind |-> in.backend],
                                in.sourceType, in.record)
       IN [risks |-> r.risks, opportunities |-> r.opportunities]
  ELSE LET r == analyzeItemRisksOnly(in.backend # "none", [kind |-> in.backend],
                                     in.sourceType, in.record, in.context)
       IN [risks |-> r.risks, opportunities |-> JsList(<<>>)]

\* ---- Scope Builder (AgentService.getOemScope, buildDataSourceParams)
\* A string is its sequence of pieces; <<>> is '' and also null, which the
\* tests of getOemScope do not tell apart.

\* [...new Set(list)]: each value once, where it came first
UniqueOfMutAll(list) == list

RECURSIVE UniqueOf(_)
UniqueOf(list) ==
  IF list = <<>> THEN <<>>
  ELSE LET front == UniqueOf(SubSeq(list, 1, Len(list) - 1))
           last == list[Len(list)]
       IN IF last \in Range(front) THEN front ELSE Append(front, last)

\* str.split(/[,;]/)
RECURSIVE Split(_)
Split(str) ==
  LET seps == {i \in 1..Len(str) : str[i] \in {",", ";"}}
  IN IF seps = {} THEN <<str>>
     ELSE LET k == CHOOSE i \in seps : \A j \in seps : i <= j
          IN <<SubSeq(str, 1, k - 1)>> \o Split(SubSeq(str, k + 1, Len(str)))

\* s.commodities.split(/[,;]/).map((c) => c.trim()).filter(Boolean)
CommodityItems(str) ==
  IF str = <<>> THEN <<>>
  ELSE SelectSeq([i \in 1..Len(Split(str)) |-> Trim(Split(str)[i])],
                 LAMBDA c : c # <<>>)

\* if (s.field) list.push(s.field), over the suppliers in order
Pushed(suppliers, field) ==
  SelectSeq([i \in 1..Len(suppliers) |-> suppliers[i][field]], LAMBDA v : v # <<>>)

RECURSIVE CommoditySet(_)
CommoditySet(suppliers) ==
  IF suppliers = <<>> THEN <<>>
  ELSE UniqueOf(CommoditySet(SubSeq(suppliers, 1, Len(suppliers) - 1))
                  \o CommodityItems(suppliers[Len(suppliers)].commodities))

\* getOemScope(oemId) for a registered tenant with these supplier rows
getOemScope(oemId, suppliers) ==
  [oemId |-> oemId,
   supplierNames |-> UniqueOf(Pushed(suppliers, "name")),
   locations |-> UniqueOf(Pushed(suppliers, "location")),
   cities |-> UniqueOf(Pushed(suppliers, "city")),
   countries |-> UniqueOf(Pushed(suppliers, "country")),
   regions |-> UniqueOf(Pushed(suppliers, "region")),
   commodities |-> CommoditySet(suppliers)]

\* list.slice(0, n)
Slice(list, n) == SubSeq(list, 1, IF Len(list) < n THEN Len(list) ELSE n)

buildDataSourceParams(scope) ==
  LET cities ==
        IF Len(scope.cities) > 0 THEN scope.cities
        ELSE IF Len(scope.locations) > 0 THEN Slice(scope.locations, 10)
        ELSE <<<<"New York">>, <<"London">>, <<"Tokyo">>, <<"Mumbai">>, <<"Shanghai">>>>
      commodities ==
        IF Len(scope.commodities) > 0 THEN scope.commodities
        ELSE <<<<"steel">>, <<"copper">>, <<"oil">>, <<"grain">>, <<"semiconductors">>>>
      routes ==
        IF Len(cities) >= 2
        THEN <<[origin |-> cities[1], destination |-> cities[2]]>>
               \o (IF Len(cities) >= 4
                   THEN <<[origin |-> cities[3], destination |-> cities[4]]>>
                   ELSE <<>>)
        ELSE <<[origin |-> <<"New York">>, destination |-> <<"Los Angeles">>]>>
      keywords ==
        SelectSeq(<<<<"supply chain">>, <<"manufacturing">>, <<"logistics">>>>
                    \o Slice(scope.commodities, 3),
                  LAMBDA k : k # <<>>)
  IN [cities |-> cities, commodities |-> commodities, routes |-> routes,
      keywords |-> keywords]

\* The supplier rows a tenant may have: repeated names and cities, rows
\* without a city, commodity texts with blanks and empty items.
SupplierRows ==
  { [name |-> <<"Acme">>, location |-> <<"Plant 1">>, city |-> <<"Pune">>,
     country |-> <<"IN">>, region |-> <<"APAC">>,
     commodities |-> <<"steel", ",", " ", "copper">>],
    [name |-> <<"Acme">>, location |-> <<>>, city |-> <<"Pune">>,
     country |-> <<"IN">>, region |-> <<>>,
     commodities |-> <<"copper", ";", "oil", ",", "grain", ";", "steel">>],
    [name |-> <<"Bolt">>, location |-> <<"Dock 4">>, city |-> <<>>,
     country |-> <<>>, region |-> <<"EMEA">>,
     commodities |-> <<" ", ";", ",", " ">>],
    [name |-> <<>>, location |-> <<"Plant 1">>, city |-> <<"Lyon">>,
     country |-> <<"FR">>, region |-> <<"EMEA">>, commodities |-> <<>>] }

MaxSuppliers == 3

\* The scopes buildDataSourceParams is given: up to five cities, up to
\* twelve locations, up to four commodities.
CityList == [i \in 1..5 |-> <<"City", ToString(i)>>]
LocationList == [i \in 1..12 |-> <<"Site", ToString(i)>>]
CommodityList == <<<<"steel">>, <<"copper">>, <<"oil">>, <<"grain">>>>

Scopes ==
  { [oemId |-> "oem1", supplierNames |-> <<>>, countries |-> <<>>, regions |-> <<>>,
     cities |-> SubSeq(CityList, 1, c), locations |-> SubSeq(LocationList, 1, l),
     commodities |-> SubSeq(CommodityList, 1, m)] :
      c \in 0..5, l \in {0, 1, 3, 12}, m \in 0..4 }

ScopeCalls ==
  { [fn |-> "getOemScope", suppliers |-> s] :
      s \in UNION { [1..n -> SupplierRows] : n \in 0..MaxSuppliers } }
  \cup { [fn |-> "buildDataSourceParams", scope |-> s] : s \in Scopes }

\* the calls made so far, each with its input and its result
Log == IF "log" \in DOMAIN callOut THEN callOut.log ELSE <<>>

CallsInit ==
  /\ CoordInit
  /\ oemRows = <<>>
  /\ fetchIn = [types |-> <<>>, registered |-> {}, outcome |-> <<>>]
  /\ fetchOut = [done |-> FALSE]
  /\ analyzeIn = [entry |-> "none"]
  /\ analyzeOut = [done |-> FALSE]
  /\ \/ callIn \in PlanCalls
     \/ callIn \in ScoreCalls
     \/ callIn \in GeneralCalls
     \/ callIn \in RisksOnlyCalls
     \/ callIn \in ScopeCalls
  /\ callOut = [done |-> FALSE]

CallPlan ==
  /\ ~callOut.done
  /\ callIn.fn \in PlanFns
  /\ LET list == SubSeq(RiskEntities, 1, callIn.count)
         out == CASE callIn.fn = "generateMitigationPlan" ->
                       generateMitigationPlan(callIn.llm, callIn.resp,
                                              RiskEntities[callIn.count], callIn.now)
                  [] callIn.fn = "generateOpportunityPlan" ->
                       generateOpportunityPlan(callIn.llm, callIn.resp,
                                               OpportunityEntities[callIn.count], callIn.now)
                  [] OTHER ->
                       generateCombinedMitigationPlanForSupplier(
                         callIn.llm, callIn.resp, <<"Acme">>, list, callIn.now)
     IN callOut' = [done |-> TRUE, thrown |-> out.thrown, value |-> out.plan]
  /\ UNCHANGED <<coordVars, storeVars, started, dropped, llm, oemRows, dataSources,
                 fetchVars, analyzeVars, callIn>>

CallScore ==
  /\ ~callOut.done
  /\ callIn.fn = "computeRiskScore"
  /\ LET out == computeRiskScore(callIn.risks)
     IN callOut' = [done |-> TRUE, thrown |-> out.thrown,
                    value |-> [overallScore |-> out.overallScore,
                               breakdown |-> out.breakdown,
                               severityCounts |-> out.severityCounts]]
  /\ UNCHANGED <<coordVars, storeVars, started, dropped, llm, oemRows, dataSources,
                 fetchVars, analyzeVars, callIn>>

CallFallback ==
  /\ callIn.fn = "fallback"
  /\ Len(Log) < MaxCalls
  /\ LET previous == IF Log = <<>>
                     THEN [risks |-> JsList(<<>>), opportunities |-> JsList(<<>>)]
                     ELSE Log[Len(Log)].out
     IN callOut' = [done |-> TRUE,
                    log |-> Append(Log, [in |-> callIn,
                                         out |-> FallbackCall(callIn, previous)])]
  /\ callIn' \in {callIn} \cup Disturbers
  /\ UNCHANGED <<coordVars, storeVars, started, dropped, llm, oemRows, dataSources,
                 fetchVars, analyzeVars>>

\* const scope = await this.getOemScope(oem.id), then in runAnalysisForOem
\* const params = this.buildDataSourceParams(scope)
CallScope ==
  /\ ~callOut.done
  /\ callIn.fn \in {"getOemScope", "buildDataSourceParams"}
  /\ LET scope == IF callIn.fn = "getOemScope"
                  THEN getOemScope("oem1", callIn.suppliers)
                  ELSE callIn.scope
     IN callOut' = [done |-> TRUE, scope |-> scope,
                    params |-> buildDataSourceParams(scope)]
  /\ UNCHANGED <<coordVars, storeVars, started, dropped, llm, oemRows, dataSources,
                 fetchVars, analyzeVars, callIn>>

CallsNext == CallPlan \/ CallScore \/ CallFallback \/ CallScope

SpecCalls == CallsInit /\ [][CallsNext]_vars

\* what the plan contract states for each generator
PlanDays(fn) == IF fn = "generateOpportunityPlan" THEN 14 ELSE 7

PlanTeam(fn) ==
  IF fn = "generateOpportunityPlan" THEN T("Strategic Planning Team")
  ELSE T("Supply Chain Team")

PlanTitle(fn, count) ==
  CASE fn = "generateMitigationPlan" ->
         JsStr(<<"Mitigation Plan: ">> \o RiskEntities[count].title.v)
    [] fn = "generateOpportunityPlan" ->
         JsStr(<<"Action Plan: ">> \o OpportunityEntities[count].title.v)
    [] OTHER -> JsStr(<<"Combined Mitigation Plan: ", "Acme">>)

\* C11: a plan generator never throws on a backend problem; with no backend,
\* a failed call or an unparseable response it returns its template, whose
\* assignee is the fixed team and whose due date is the current day plus 7
\* days (risk and combined plans) or plus 14 days (opportunity plans).
PlanFallback ==
  (callOut.done /\ callIn.fn \in PlanFns) =>
    /\ ~callOut.thrown
    /\ (~callIn.llm \/ callIn.resp.kind \in {"throws", "noJson", "badJson"}) =>
         /\ callOut.value.title = PlanTitle(callIn.fn, callIn.count)
         /\ Len(callOut.value.actions.v) = 5
         /\ callOut.value.assignedTo = PlanTeam(callIn.fn)
         /\ callOut.value.dueDate.t = "date"
         /\ callOut.value.dueDate.day = (callIn.now \div DayMs) + PlanDays(callIn.fn)

\* an opportunity plan asked for in the last millisecond of a day, from a
\* backend whose call fails
PlanFallbackSeen ==
  /\ callOut.done
  /\ callIn.fn = "generateOpportunityPlan"
  /\ callIn.llm
  /\ callIn.resp.kind = "throws"
  /\ callIn.now = DayMs - 1
  /\ callOut.value.dueDate.day = 14

\* C12: computeRiskScore is total: the empty list gives overallScore 0, an
\* empty breakdown and empty severityCounts, and no list of risks raises an
\* error, whether a severity or a source type is missing or not.
ScoreTotal ==
  (callOut.done /\ callIn.fn = "computeRiskScore") =>
    /\ ~callOut.thrown
    /\ callIn.risks = <<>> =>
         /\ callOut.value.overallScore = JsNum(0)
         /\ callOut.value.breakdown = EmptyMap
         /\ callOut.value.severityCounts = EmptyMap

\* a list whose second risk has neither severity nor source type was scored
ScoreTotalSeen ==
  /\ callOut.done
  /\ callIn.fn = "computeRiskScore"
  /\ Len(callIn.risks) = 2
  /\ callIn.risks[2] = [severity |-> Undefined, sourceType |-> Undefined]
  /\ callOut.value.severityCounts = [medium |-> JsNum(2)]
  /\ callOut.value.breakdown = [weather |-> JsNum(2), other |-> JsNum(2)]

\* the weight the contract states for a severity: critical 4, high 3,
\* medium 2, low 1, and 2 for a missing or any other severity
StatedWeight(r) ==
  LET sev == IF Get(r, "severity").t = "string" THEN LowerWord(Get(r, "severity").v[1])
             ELSE "medium"
  IN CASE sev = "critical" -> 4
       [] sev = "high" -> 3
       [] sev = "low" -> 1
       [] OTHER -> 2

\* the stated weights of the risks from position i on whose source type is
\* src ("*" for every risk)
RECURSIVE StatedSum(_, _, _)
StatedSum(list, i, src) ==
  IF i > Len(list) THEN 0
  ELSE (IF src = "*" \/ Key(JsOr(Get(list[i], "sourceType"), T("other"))) = src
        THEN StatedWeight(list[i]) ELSE 0)
       + StatedSum(list, i + 1, src)

\* every severity is missing or a word that names no inherited property
PlainSeverities(list) ==
  \A i \in 1..Len(list) :
    Get(list[i], "severity").t = "string" => Get(list[i], "severity").v[1] \notin Inherited

\* C13: for a non-empty list of risks (severities missing, known in any
\* letter case, or unknown words) overallScore is (weightedSum / count) * 25,
\* capped at 100 and rounded to the nearest integer, with weights critical 4,
\* high 3, medium 2, low 1; it is an integer in 25..100, and 100 when every
\* risk is critical.
ScoreFormula ==
  (callOut.done /\ callIn.fn = "computeRiskScore" /\ callIn.risks # <<>>
   /\ PlainSeverities(callIn.risks)) =>
    LET count == Len(callIn.risks)
        weightedSum == StatedSum(callIn.risks, 1, "*")
        capped == IF 25 * weightedSum < 100 * count THEN 25 * weightedSum ELSE 100 * count
        score == callOut.value.overallScore
    IN /\ score.t = "number"
       /\ score.v \in 25..100
       /\ 2 * (count * score.v - capped) \in (0 - count)..count
       /\ (\A i \in 1..count : callIn.risks[i].severity = T("critical")) => score.v = 100

\* three risks, critical, low and missing severity: (4 + 1 + 2) / 3 * 25 = 58.33
ScoreFormulaSeen ==
  /\ callOut.done
  /\ callIn.fn = "computeRiskScore"
  /\ Len(callIn.risks) = 3
  /\ callIn.risks[1].severity = T("critical")
  /\ callIn.risks[2].severity = T("low")
  /\ callIn.risks[3].severity = Undefined
  /\ callOut.value.overallScore = JsNum(58)

\* the key the contract counts a risk under: its severity, medium when missing
StatedSeverity(r) ==
  IF Get(r, "severity").t = "string" THEN LowerWord(Get(r, "severity").v[1]) ELSE "medium"

\* the key the contract adds a risk's weight to: its source type, else other
StatedSource(r) ==
  IF Get(r, "sourceType").t = "string" THEN Get(r, "sourceType").v[1] ELSE "other"

\* C14: severityCounts maps each severity to the number of risks with it and
\* breakdown maps each source type ("other" when missing) to the sum of the
\* weights of its risks, a severity outside the four known values weighing 2
\* under its own key; one medium weather risk gives score 50, breakdown
\* {weather: 2} and severityCounts {medium: 1}.
ScoreMaps ==
  (callOut.done /\ callIn.fn = "computeRiskScore") =>
    LET list == callIn.risks
        counts == callOut.value.severityCounts
        breakdown == callOut.value.breakdown
    IN /\ DOMAIN counts = {StatedSeverity(list[i]) : i \in 1..Len(list)}
       /\ \A k \in DOMAIN counts :
            counts[k] = JsNum(Cardinality({i \in 1..Len(list) : StatedSeverity(list[i]) = k}))
       /\ DOMAIN breakdown = {StatedSource(list[i]) : i \in 1..Len(list)}
       /\ \A k \in DOMAIN breakdown : breakdown[k] = JsNum(StatedSum(list, 1, k))
       /\ list = <<[severity |-> T("medium"), sourceType |-> T("weather")]>> =>
            /\ callOut.value.overallScore = JsNum(50)
            /\ breakdown = [weather |-> JsNum(2)]
            /\ counts = [medium |-> JsNum(1)]

\* ScoreMaps for the lists in which no severity and no source type names an
\* inherited property
ScoreMapsPlain ==
  (callIn.fn = "computeRiskScore" /\ \A i \in 1..Len(callIn.risks) :
     StatedSeverity(callIn.risks[i]) \notin Inherited
       /\ StatedSource(callIn.risks[i]) \notin Inherited) => ScoreMaps

\* the calls of the general fallback made so far with no backend configured
\* on a record of the given source type
GeneralSeen(sourceType) ==
  {i \in 1..Len(Log) : /\ Log[i].in.entry = "analyzeDataItem"
                       /\ Log[i].in.backend = "none"
                       /\ Log[i].in.sourceType = sourceType}

\* C15: with no backend, the general fallback on a weather record yields
\* exactly one risk, of severity high and region "<city>, <country>", when the
\* condition is exactly "Storm" or "Rain"; for any other condition it yields
\* no risk, and it never yields an opportunity.
WeatherRule ==
  \A i \in GeneralSeen("weather") :
    LET record == Log[i].in.record
        out == Log[i].out
    IN /\ out.opportunities = JsList(<<>>)
       /\ IF Get(record, "condition") \in {T("Storm"), T("Rain")}
          THEN /\ Len(out.risks.v) = 1
               /\ out.risks.v[1].severity = T("high")
               /\ out.risks.v[1].affectedRegion
                    = JsStr(record.city.v \o <<", ">> \o record.country.v)
          ELSE out.risks = JsList(<<>>)

\* a Rain record of Chennai, IN gave its one risk
WeatherRuleSeen ==
  \E i \in GeneralSeen("weather") :
    /\ Get(Log[i].in.record, "condition") = T("Rain")
    /\ Len(Log[i].out.risks.v) = 1
    /\ Log[i].out.risks.v[1].affectedRegion = JsStr(<<"Chennai", ", ", "IN">>)

\* C16: with no backend, the general fallback on a market record yields
\* exactly one cost_saving opportunity with estimatedValue = |priceChange| x
\* 1000 when priceChangePercent < -5, nothing when priceChangePercent >= -5
\* (-5 included), and never a risk.
MarketRule ==
  \A i \in GeneralSeen("market") :
    LET record == Log[i].in.record
        percent == Get(record, "priceChangePercent")
        change == Get(record, "priceChange")
        out == Log[i].out
    IN /\ out.risks = JsList(<<>>)
       /\ (percent.t = "number" /\ percent.v < -5) =>
            /\ Len(out.opportunities.v) = 1
            /\ out.opportunities.v[1].type = T("cost_saving")
            /\ change.t = "number" =>
                 out.opportunities.v[1].estimatedValue
                   = JsNum(1000 * (IF change.v < 0 THEN 0 - change.v ELSE change.v))
       /\ (percent.t = "number" /\ percent.v >= -5) => out.opportunities = JsList(<<>>)

\* steel at -8 percent with priceChange -8 gave one opportunity worth 8000
MarketRuleSeen ==
  /\ \E i \in GeneralSeen("market") :
       /\ Get(Log[i].in.record, "priceChangePercent") = JsNum(-8)
       /\ Get(Log[i].in.record, "priceChange") = JsNum(-8)
       /\ Len(Log[i].out.opportunities.v) = 1
       /\ Log[i].out.opportunities.v[1].estimatedValue = JsNum(8000)

\* the calls of the risks-only fallback made so far with no backend
\* configured in the given context
RisksOnlySeen(context) ==
  {i \in 1..Len(Log) : /\ Log[i].in.entry = "analyzeItemRisksOnly"
                       /\ Log[i].in.backend = "none"
                       /\ Log[i].in.context = context}

\* the record's status: its status field, else its routeStatus
StatedStatus(record) ==
  IF Get(record, "status").t = "string" THEN record.status ELSE Get(record, "routeStatus")

\* a field rendered in a region, empty when missing
StatedText(record, field) ==
  IF Get(record, field).t = "string" THEN record[field].v ELSE <<>>

HasKeyword(v) ==
  /\ v.t = "string"
  /\ \E k \in {"disruption", "crisis", "shortage"} : Includes(ToLowerCase(v.v), k)

\* C18: with no backend, the risks-only fallback in the global_risk context
\* yields exactly one medium risk with region "Global" whenever the record's
\* title or its description contains a keyword, also when the title is
\* non-empty without a keyword and the description has one; it yields no risk
\* otherwise.
GlobalRule ==
  \A i \in RisksOnlySeen("global_risk") :
    LET record == Log[i].in.record
        out == Log[i].out
    IN IF HasKeyword(Get(record, "title")) \/ HasKeyword(Get(record, "description"))
       THEN /\ Len(out.risks.v) = 1
            /\ out.risks.v[1].severity = T("medium")
            /\ out.risks.v[1].affectedRegion = T("Global")
       ELSE out.risks = JsList(<<>>)

\* GlobalRule for the records whose description is read: those with a
\* missing or empty title, and those whose title has a keyword itself
GlobalRuleTitleFirst ==
  \A i \in RisksOnlySeen("global_risk") :
    LET record == Log[i].in.record
        out == Log[i].out
        read == IF Truthy(Get(record, "title")) THEN Get(record, "title")
                ELSE Get(record, "description")
    IN IF HasKeyword(read)
       THEN /\ Len(out.risks.v) = 1
            /\ out.risks.v[1].severity = T("medium")
            /\ out.risks.v[1].affectedRegion = T("Global")
       ELSE out.risks = JsList(<<>>)

ScoreRows ==
  [i \in 1..Len(scores) |->
     [oemId |-> scores[i].oemId, riskIds |-> scores[i].riskIds, createdAt |-> i]]

\* findOne({ where: { oemId }, order: { createdAt: 'DESC' } }): null when no
\* row matches
getLatestRiskScoreMutOldest(oemId) ==
  LET rows == {i \in 1..Len(scores) : ScoreRows[i].oemId = oemId}
  IN IF rows = {} THEN NoRow
     ELSE ScoreRows[CHOOSE i \in rows :
                      \A j \in rows : ScoreRows[i].createdAt <= ScoreRows[j].createdAt]

getLatestRiskScore(oemId) ==
  LET rows == {i \in 1..Len(scores) : ScoreRows[i].oemId = oemId}
  IN IF rows = {} THEN NoRow
     ELSE ScoreRows[CHOOSE i \in rows :
                      \A j \in rows : ScoreRows[i].createdAt >= ScoreRows[j].createdAt]

\* a run has its snapshot saved and goes on to the plans
PassesStep5(t) ==
  /\ tasks[t].pc = "saveScore"
  /\ tasks'[t].pc \in {"combined", "loadNeed"}

\* C20: the snapshots are append-only: a tenant's run that gets through the
\* snapshot step adds exactly one snapshot, for that tenant, and no step
\* changes or removes an earlier one; getLatestRiskScore(tenant) is the
\* tenant's snapshot created last, never another tenant's, and none when the
\* tenant has no snapshot.
SnapshotsAppendOnly ==
  /\ [][\A t \in TaskIds :
          PassesStep5(t) => /\ Len(scores') = Len(scores) + 1
                            /\ scores'[Len(scores')].oemId = tasks[t].scope]_vars
  /\ [][/\ Len(scores') >= Len(scores)
        /\ SubSeq(scores', 1, Len(scores)) = scores
        /\ scores' # scores => \E t \in TaskIds : PassesStep5(t)]_vars
  /\ [](\A oemId \in OemIds \cup {UnknownOem} :
          LET latest == getLatestRiskScore(oemId)
              own == {i \in 1..Len(scores) : scores[i].oemId = oemId}
          IN IF own = {} THEN latest = NoRow
             ELSE /\ latest.oemId = oemId
                  /\ latest.createdAt \in own
                  /\ \A i \in own : i <= latest.createdAt
                  /\ latest.riskIds = scores[latest.createdAt].riskIds)

\* oem1 has two snapshots with different risk lists, oem2 has one created in
\* between, and the latest of oem1 is the third row
LatestOfTwo ==
  /\ Len(scores) >= 3
  /\ scores[1].oemId = "oem1"
  /\ scores[2].oemId = "oem2"
  /\ scores[3].oemId = "oem1"
  /\ scores[1].riskIds # scores[3].riskIds
  /\ getLatestRiskScore("oem1").createdAt = 3
  /\ getLatestRiskScore("oem2").createdAt = 2
  /\ getLatestRiskScore(UnknownOem) = NoRow

\* C21: every risk a tenant's run persists, in each of its three stages, is
\* created in status detected and owned by the run's tenant, and every
\* opportunity in status identified and owned by that tenant; no step of a
\* cycle changes a risk or an opportunity that exists already.
CreatedDetected ==
  [][tasks' # tasks =>
       /\ Len(risks') >= Len(risks)
       /\ Len(opportunities') >= Len(opportunities)
       /\ SubSeq(risks', 1, Len(risks)) = risks
       /\ SubSeq(opportunities', 1, Len(opportunities)) = opportunities
       /\ \A i \in (Len(risks) + 1)..Len(risks') :
            /\ risks'[i].status = "detected"
            /\ \E t \in TaskIds : /\ tasks[t].pc \in {"save1", "save2", "save3"}
                                  /\ risks'[i].oemId = tasks[t].scope
       /\ \A i \in (Len(opportunities) + 1)..Len(opportunities') :
            /\ opportunities'[i].status = "identified"
            /\ \E t \in TaskIds : /\ tasks[t].pc \in {"save1", "save2", "save3"}
                                  /\ opportunities'[i].oemId = tasks[t].scope]_vars

\* a run of oem2 is about to save a risk of its shipping stage; the store
\* holds a risk of oem1 that a user has resolved, and an opportunity
SavedInLaterStage ==
  \E t \in TaskIds :
    /\ tasks[t].pc = "save3"
    /\ tasks[t].scope = "oem2"
    /\ tasks[t].pendR # <<>>
    /\ Len(risks) = 1
    /\ risks[1].oemId = "oem1"
    /\ risks[1].status = "resolved"
    /\ Len(opportunities) = 1
    /\ opportunities[1].status = "identified"


\* C22: an all-tenants cycle takes its tenants one after another, in the
\* order of the list: it moves to the next tenant only where a tenant's run
\* has returned (or the tenant was skipped), and it recomputes the counters
\* of the status row once, after the last tenant; when such a cycle has
\* ended in idle, the three counters are the sizes of the three tables.
LoopEnds == {"getScope", "loadOpps", "oppPlans"}

StoreSizes == <<Len(risks), Len(opportunities), Len(plans)>>

TenantsInTurn ==
  /\ [](\A t \in TaskIds :
          (tasks[t].origin = "all" /\ tasks[t].scope # "none")
            => /\ tasks[t].idx \in 1..Len(tasks[t].oems)
               /\ tasks[t].scope = tasks[t].oems[tasks[t].idx])
  /\ [][\A t \in TaskIds :
          (tasks[t].origin = "all" /\ tasks'[t].origin = "all")
            => /\ tasks'[t].idx # tasks[t].idx
                    => /\ tasks[t].pc \in LoopEnds \cup {"findAll"}
                       /\ tasks[t].pc = "findAll" => tasks[t].idx = 0
                       /\ tasks'[t].pc \in {"getScope", "noOems"}
                       /\ tasks'[t].idx = tasks[t].idx + 1
               /\ (tasks'[t].pc = "counters" /\ tasks[t].pc # "counters")
                    => /\ tasks[t].pc \in LoopEnds
                       /\ tasks[t].idx = Len(tasks[t].oems)
               /\ Counters3(agentStatus') # Counters3(agentStatus)
                    => /\ tasks[t].pc = "counters"
                       /\ tasks'[t].pc = "toIdle"
                       /\ Counters3(agentStatus') = StoreSizes
               /\ tasks[t].pc \in {"toIdle", "catch", "release"}
                    => tasks'[t].pc \in {"toIdle", "catch", "release"}]_vars
  /\ [](( /\ ~isRunning
          /\ lastCycle.origin = "all"
          /\ lastCycle.failed = ""
          /\ agentStatus.status = "idle" )
         => Counters3(agentStatus) = StoreSizes)

\* a cycle over two tenants has ended in idle with a risk of each stored
TwoTenantsCounted ==
  /\ ~isRunning
  /\ lastCycle.origin = "all"
  /\ lastCycle.failed = ""
  /\ agentStatus.status = "idle"
  /\ Len(oemRows) = 2
  /\ Len(risks) = 2
  /\ risks[1].oemId = "oem1"
  /\ risks[2].oemId = "oem2"
  /\ agentStatus.risksDetected = 2


\* C23: the trigger endpoint answers without waiting for the cycle: the
\* response to a request that started a cycle has been sent before that
\* cycle ends, so nothing is sent in the step that ends it; and a request
\* the single-flight guard dropped is not answered with the acknowledgment
\* of a started analysis.
Triggered == "Analysis triggered successfully"

TriggerAnswersAtOnce ==
  [][/\ \A t \in TaskIds :
          (tasks[t].http /\ tasks[t].pc # "idle" /\ tasks'[t].pc = "idle")
            => reply' = reply
     /\ dropped' # dropped => reply'.message # Triggered]_vars


\* ---- properties of the Scope Builder

ScopeSeen == callOut.done /\ callIn.fn \in {"getOemScope", "buildDataSourceParams"}

NoDuplicates(list) ==
  \A i, j \in 1..Len(list) : i # j => list[i] # list[j]

StatedCities == <<<<"New York">>, <<"London">>, <<"Tokyo">>, <<"Mumbai">>, <<"Shanghai">>>>
StatedCommodities ==
  <<<<"steel">>, <<"copper">>, <<"oil">>, <<"grain">>, <<"semiconductors">>>>
StatedRoute == [origin |-> <<"New York">>, destination |-> <<"Los Angeles">>]
StatedPhrases == <<<<"supply chain">>, <<"manufacturing">>, <<"logistics">>>>

FirstOf(list, n) == [i \in 1..(IF Len(list) < n THEN Len(list) ELSE n) |-> list[i]]

\* C24: the lists of a tenant's scope hold no value twice and hold each
\* value its supplier rows have; the fetch parameters take the cities from
\* the scope's cities, else its first 10 locations, else the default
\* cities; the commodities from the scope, else the default list; one route
\* from the first two cities and a second from the third and fourth when
\* there are four, the default route when there are fewer than two cities;
\* the keywords are the three phrases and then at most 3 commodities of the
\* scope.  A tenant without suppliers gets the defaults and so a full run.
ScopeAsStated ==
  ScopeSeen =>
    LET s == callOut.scope
        p == callOut.params
    IN /\ callIn.fn = "getOemScope"
            => /\ \A f \in {"supplierNames", "locations", "cities", "countries",
                            "regions", "commodities"} : NoDuplicates(s[f])
               /\ Range(s.cities)
                    = {callIn.suppliers[i].city : i \in 1..Len(callIn.suppliers)}
                        \ {<<>>}
               /\ Range(s.supplierNames)
                    = {callIn.suppliers[i].name : i \in 1..Len(callIn.suppliers)}
                        \ {<<>>}
               /\ callIn.suppliers = <<>>
                    => /\ p.cities = StatedCities
                       /\ p.commodities = StatedCommodities
                       /\ p.routes # <<>>
                       /\ p.keywords = StatedPhrases
       /\ p.cities = IF s.cities # <<>> THEN s.cities
                     ELSE IF s.locations # <<>> THEN FirstOf(s.locations, 10)
                     ELSE StatedCities
       /\ p.commodities = IF s.commodities # <<>> THEN s.commodities
                          ELSE StatedCommodities
       /\ Len(p.cities) >= 4
            => p.routes = <<[origin |-> p.cities[1], destination |-> p.cities[2]],
                            [origin |-> p.cities[3], destination |-> p.cities[4]]>>
       /\ Len(p.cities) \in {2, 3}
            => p.routes = <<[origin |-> p.cities[1], destination |-> p.cities[2]]>>
       /\ Len(p.cities) < 2 => p.routes = <<StatedRoute>>
       /\ p.keywords = StatedPhrases \o FirstOf(s.commodities, 3)

\* three supplier rows, two of them in the same city and with commodities
\* in common: one city each, four commodities, three of them keywords
ScopeFromRepeatedRows ==
  /\ ScopeSeen
  /\ callIn.fn = "getOemScope"
  /\ Len(callIn.suppliers) = 3
  /\ callIn.suppliers[1].city = <<"Pune">>
  /\ callIn.suppliers[2].city = <<"Pune">>
  /\ callOut.scope.cities = <<<<"Pune">>, <<"Lyon">>>>
  /\ callOut.scope.commodities = <<<<"steel">>, <<"copper">>, <<"oil">>, <<"grain">>>>
  /\ Len(callOut.params.keywords) = 6
  /\ Len(callOut.params.routes) = 1


\* C25: without a backend, the weather + news stage of a run gives the
\* rules the data payload of each connector record, as the global-news and
\* the shipping stage do: its result is the rules' result for the payload,
\* and for a weather record whose payload condition is Storm it is exactly
\* one risk of severity high.
PayloadResult(type) ==
  LET item == SampleData[type][1]
  IN TagAll(mockAnalyzeDataItem(type, Payload(item)).risks.v, type, item)

StageOneUnwraps ==
  ( /\ analyzeOut.done
    /\ ~analyzeIn.llm
    /\ analyzeIn.entry = "analyzeData"
    /\ analyzeIn.type \in {"weather", "news"} )
    => /\ ~analyzeOut.thrown
       /\ analyzeOut.risks = PayloadResult(analyzeIn.type)
       /\ analyzeIn.type = "weather"
            => /\ Len(analyzeOut.risks) = 1
               /\ analyzeOut.risks[1].severity = T("high")


\* ---- Steps 5 to 8 of a run on their own: the snapshot, the combined
\* plans, the individual plans and the opportunity plans, over the rows
\* earlier stages and earlier cycles may have left in the tables.

\* Rows of the risks table: the two tenants, detected or resolved by a
\* user, and the supplier texts an analysis may have put in (none, empty,
\* blank, a name, the name with blanks around it, another name).
StoredRiskRows ==
  { [oemId |-> o, status |-> "detected", severity |-> T("high"), affectedSupplier |-> s] :
      o \in {"oem2"},
      s \in {Undefined, JsStr(<<" ">>), T("Acme"), JsStr(<<" ", "Acme", " ">>),
             T("Bolt")} }
  \cup { [oemId |-> "oem2", status |-> "resolved", severity |-> T("high"),
          affectedSupplier |-> T("Acme")],
         [oemId |-> "oem1", status |-> "detected", severity |-> T("high"),
          affectedSupplier |-> T("Acme")] }

StoredOppRows ==
  { [oemId |-> "oem2", status |-> "identified", type |-> T("cost_saving")],
    [oemId |-> "oem1", status |-> "identified", type |-> T("cost_saving")],
    [oemId |-> "oem2", status |-> "evaluating", type |-> T("cost_saving")] }

MaxStored == 3

\* the plans of an earlier cycle: none, the plan of the first risk, or the
\* plan of the first opportunity
StoredPlans(riskRows, oppRows) ==
  {<<>>}
  \cup (IF riskRows = <<>> THEN {}
        ELSE {<<saveMitigationPlan(SupplierKey(riskRows[1]), 1, 0)>>})
  \cup (IF oppRows = <<>> THEN {} ELSE {<<saveMitigationPlan(<<>>, 0, 1)>>})

\* A timer-started cycle over oem1 and oem2 has saved the risks of the
\* shipping stage of oem2, its last tenant.
PlanStageInit ==
  /\ isRunning = TRUE
  /\ tasks = [t \in TaskIds |->
                IF t = 1
                THEN [IdleTask EXCEPT !.pc = "loadRisks", !.origin = "all",
                                      !.oems = <<"oem1", "oem2">>, !.idx = 2,
                                      !.scope = "oem2"]
                ELSE IdleTask]
  /\ agentStatus = [status |-> "monitoring",
                    currentTask |-> <<"Fetching shipping routes for OEM: ", "oem2">>,
                    risksDetected |-> 0, opportunitiesIdentified |-> 0,
                    plansGenerated |-> 0]
  /\ risks \in UNION { [1..n -> StoredRiskRows] : n \in 0..MaxStored }
  /\ opportunities \in UNION { [1..n -> StoredOppRows] : n \in 0..1 }
  /\ plans \in StoredPlans(risks, opportunities)
  /\ scores = <<>>
  /\ started = 1
  /\ dropped = 0
  /\ lastCycle = NoCycle
  /\ reply = NoReply
  /\ llm = TRUE
  /\ oemRows = <<"oem1", "oem2">>
  /\ dataSources = SourceTypes
  /\ PureInit

PlanStageNext ==
  \/ \E t \in TaskIds : LoadRisks(t)
  \/ \E t \in TaskIds : SaveScore(t)
  \/ \E t \in TaskIds : Combined(t)
  \/ \E t \in TaskIds : LoadNeed(t)
  \/ \E t \in TaskIds : Individual(t)
  \/ \E t \in TaskIds : LoadOpps(t)
  \/ \E t \in TaskIds : OppPlans(t)
  \/ \E t \in TaskIds : Counters(t)
  \/ \E t \in TaskIds : UpdateStatusStep(t)
  \/ \E t \in TaskIds : Release(t)
  \/ \E t \in TaskIds : StepThrows(t)
  \/ \E id \in RiskIds : UpdateRisk(id)

SpecPlans == PlanStageInit /\ [][PlanStageNext]_vars

\* the supplier text of a risk without the blanks around it; no text is ''
StatedKey(risk) ==
  LET s == IF risk.affectedSupplier.t = "string" THEN risk.affectedSupplier.v ELSE <<>>
      solid == {i \in 1..Len(s) : s[i] # " "}
  IN IF solid = {} THEN <<>>
     ELSE SubSeq(s, CHOOSE i \in solid : \A j \in solid : i <= j,
                    CHOOSE i \in solid : \A j \in solid : j <= i)

\* C26: step 6 forms one group for each distinct trimmed supplier name among
\* the detected risks of the tenant that step 5 loaded; a risk without a
\* supplier, or with an empty or blank one, is in no group, and two risks
\* are in one group exactly when their trimmed names are equal.  Each turn
\* of step 6 stores one plan, combined for the next group and attached to a
\* risk of that group, and step 6 ends when every group has had its turn:
\* as many combined plans as groups.
GroupedBySupplier ==
  [][\A t \in TaskIds :
       /\ (tasks[t].pc = "loadRisks" /\ tasks'[t].pc = "saveScore")
            => Range(tasks'[t].allRisks)
                 = {id \in RiskIds : /\ risks[id].oemId = tasks[t].scope
                                      /\ risks[id].status = "detected"}
       /\ (tasks[t].pc = "saveScore" /\ tasks'[t].pc \in {"combined", "loadNeed"})
            => /\ NoDuplicates(tasks'[t].groups)
               /\ Range(tasks'[t].groups)
                    = {StatedKey(risks[id]) : id \in Range(tasks[t].allRisks)} \ {<<>>}
       /\ ( /\ tasks[t].pc = "combined"
            /\ tasks'[t] # tasks[t]
            /\ tasks'[t].pc \in {"combined", "loadNeed"} )
            => /\ Len(plans') = Len(plans) + 1
               /\ SubSeq(plans', 1, Len(plans)) = plans
               /\ plans'[Len(plans')].combinedForSupplier = Head(tasks[t].groups)
               /\ plans'[Len(plans')].riskId \in Range(tasks[t].allRisks)
               /\ StatedKey(risks[plans'[Len(plans')].riskId]) = Head(tasks[t].groups)
               /\ tasks'[t].groups = Tail(tasks[t].groups)
       /\ (tasks[t].pc \in {"saveScore", "combined"} /\ tasks'[t].pc = "loadNeed")
            => tasks'[t].groups = <<>>]_vars

\* step 6 has ended after two combined plans: three detected risks of the
\* tenant, two of them of one supplier once the blanks are removed
TwoGroupsOfThree ==
  \E t \in TaskIds :
    /\ tasks[t].pc = "loadNeed"
    /\ Len(tasks[t].allRisks) = 3
    /\ risks[1].affectedSupplier = T("Acme")
    /\ risks[2].affectedSupplier = T("Bolt")
    /\ risks[3].affectedSupplier = JsStr(<<" ", "Acme", " ">>)
    /\ Len(plans) = 2
    /\ plans[1].combinedForSupplier = <<"Acme">>
    /\ plans[2].combinedForSupplier = <<"Bolt">>


\* C27: step 7 takes exactly the risks that, when it reads them, are
\* detected risks of the tenant without a plan and whose trimmed supplier
\* name has no group of step 6 of this cycle, each once; every turn stores
\* one plan for the next of them, on that risk and on no opportunity.
GroupNames(task) == {StatedKey(risks[id]) : id \in Range(task.allRisks)} \ {<<>>}

IndividualPlans ==
  [][\A t \in TaskIds :
       /\ (tasks[t].pc = "loadNeed" /\ tasks'[t].pc \in {"individual", "loadOpps"})
            => /\ NoDuplicates(tasks'[t].todo)
               /\ Range(tasks'[t].todo)
                    = {id \in RiskIds :
                         /\ risks[id].oemId = tasks[t].scope
                         /\ risks[id].status = "detected"
                         /\ ~(\E p \in 1..Len(plans) : plans[p].riskId = id)
                         /\ StatedKey(risks[id]) \notin GroupNames(tasks[t])}
               /\ plans' = plans
       /\ ( /\ tasks[t].pc = "individual"
            /\ tasks'[t] # tasks[t]
            /\ tasks'[t].pc \in {"individual", "loadOpps"} )
            => /\ Len(plans') = Len(plans) + 1
               /\ SubSeq(plans', 1, Len(plans)) = plans
               /\ plans'[Len(plans')].riskId = Head(tasks[t].todo)
               /\ plans'[Len(plans')].opportunityId = 0
               /\ plans'[Len(plans')].combinedForSupplier = <<>>
               /\ tasks'[t].todo = Tail(tasks[t].todo)
       /\ (tasks[t].pc \in {"loadNeed", "individual"} /\ tasks'[t].pc = "loadOpps")
            => tasks'[t].todo = <<>>]_vars

\* step 7 has ended: the first risk has the combined plan of its group, the
\* second, of the same supplier, has none, and the third, whose supplier is
\* blank, has a plan of its own
OnePlanOutsideGroups ==
  \E t \in TaskIds :
    /\ tasks[t].pc = "loadOpps"
    /\ tasks[t].allRisks = <<1, 2, 3>>
    /\ risks[1].affectedSupplier = T("Acme")
    /\ risks[2].affectedSupplier = JsStr(<<" ", "Acme", " ">>)
    /\ risks[3].affectedSupplier = JsStr(<<" ">>)
    /\ Len(plans) = 2
    /\ plans[1].riskId = 1
    /\ plans[2].riskId = 3
    /\ plans[2].combinedForSupplier = <<>>


\* C28: every plan a cycle stores is created in status draft and has one
\* target, a risk or an opportunity and not both; the plans of steps 6 and
\* 7 have a risk and no opportunity; step 8 takes the opportunities that,
\* when it reads them, are identified opportunities of the tenant without
\* a plan, each once, and stores for each one plan with that opportunity
\* and no risk.
PlanTargets ==
  [][\A t \in TaskIds :
       /\ \A p \in (Len(plans) + 1)..Len(plans') :
            /\ plans'[p].status = "draft"
            /\ (plans'[p].riskId = 0) # (plans'[p].opportunityId = 0)
            /\ plans'[p].riskId \in {0} \cup RiskIds
            /\ plans'[p].opportunityId \in {0} \cup OppIds
       /\ (tasks[t].pc \in {"combined", "individual"} /\ Len(plans') > Len(plans))
            => /\ plans'[Len(plans')].riskId # 0
               /\ plans'[Len(plans')].opportunityId = 0
       /\ (tasks[t].pc = "loadOpps" /\ tasks'[t] # tasks[t] /\ tasks'[t].err = "")
            => /\ NoDuplicates(tasks'[t].todo)
               /\ Range(tasks'[t].todo)
                    = {id \in OppIds :
                         /\ opportunities[id].oemId = tasks[t].scope
                         /\ opportunities[id].status = "identified"
                         /\ ~(\E p \in 1..Len(plans) : plans[p].opportunityId = id)}
               /\ tasks'[t].todo = <<>> <=> tasks'[t].pc # "oppPlans"
       /\ (tasks[t].pc = "oppPlans" /\ tasks'[t] # tasks[t] /\ tasks'[t].err = "")
            => /\ Len(plans') = Len(plans) + 1
               /\ SubSeq(plans', 1, Len(plans)) = plans
               /\ plans'[Len(plans')].opportunityId = Head(tasks[t].todo)
               /\ plans'[Len(plans')].riskId = 0
               /\ tasks'[t].pc = "oppPlans" => tasks'[t].todo = Tail(tasks[t].todo)
               /\ tasks'[t].pc # "oppPlans" => Tail(tasks[t].todo) = <<>>]_vars

\* a run of oem2 has stored a plan for its risk, the second of the table,
\* and then a plan for its opportunity
RiskPlanAndOpportunityPlan ==
  \E t \in TaskIds :
    /\ tasks[t].pc = "counters"
    /\ Len(plans) = 2
    /\ risks[1].oemId = "oem1"
    /\ plans[1].riskId = 2
    /\ plans[1].opportunityId = 0
    /\ plans[2].riskId = 0
    /\ plans[2].opportunityId = 1
    /\ opportunities[1].oemId = "oem2"
    /\ scores # <<>>


\* C29: whenever no cycle holds the guard, the phase of the status row is
\* idle or error; monitoring, analyzing and processing are seen only while
\* a cycle is in progress.
PhaseWhenFree ==
  ~isRunning => agentStatus.status \in {"idle", "error"}


\* ---- The agent_status table on its own: startups, status writes and
\* counter writes of one application instance, and a database that is
\* emptied from outside.

\* agentStatusRepository.findOne({ where: {} })
FindOne(table) == IF table = <<>> THEN NoRow ELSE table[1]

\* agentStatusRepository.save(entity): the row with the entity's id is
\* replaced; an entity whose id is in no row is inserted
SaveRow(table, entity) ==
  IF \E i \in 1..Len(table) : table[i].id = entity.id
  THEN [i \in 1..Len(table) |-> IF table[i].id = entity.id THEN entity ELSE table[i]]
  ELSE Append(table, entity)

\* onModuleInit(): id is the uuid the new row gets
onModuleInitMutAlways(table, id) ==
  SaveRow(table, [id |-> id, status |-> "idle", currentTask |-> <<>>,
                  risksDetected |-> 0, opportunitiesIdentified |-> 0,
                  plansGenerated |-> 0])

onModuleInit(table, id) ==
  IF FindOne(table) = NoRow
  THEN SaveRow(table, [id |-> id, status |-> "idle", currentTask |-> <<>>,
                       risksDetected |-> 0, opportunitiesIdentified |-> 0,
                       plansGenerated |-> 0])
  ELSE table

\* updateStatus(status, task) and the counter update, on the table: find
\* the row, and save it only if (agentStatus)
WriteRow(table, row) == IF row = NoRow THEN table ELSE SaveRow(table, row)

MaxStartups == 3
MaxWrites == 2

StatusInit ==
  /\ CoordInit
  /\ oemRows = <<>>
  /\ fetchIn = [types |-> <<>>, registered |-> {}, outcome |-> <<>>]
  /\ fetchOut = [done |-> FALSE]
  /\ analyzeIn = [entry |-> "none"]
  /\ analyzeOut = [done |-> FALSE]
  /\ callIn = [fn |-> "agent_status"]
  /\ callOut = [up |-> FALSE, table |-> <<>>, starts |-> 0, writes |-> 0,
                emptied |-> FALSE]

StatusUnchanged ==
  UNCHANGED <<coordVars, storeVars, started, dropped, llm, oemRows, dataSources,
              fetchVars, analyzeVars, callIn>>

\* the application starts: onModuleInit
Startup ==
  /\ ~callOut.up
  /\ callOut.starts < MaxStartups
  /\ callOut' = [callOut EXCEPT !.up = TRUE, !.starts = @ + 1,
                                !.table = onModuleInit(@, callOut.starts + 1)]
  /\ StatusUnchanged

\* the application stops
Shutdown ==
  /\ callOut.up
  /\ callOut' = [callOut EXCEPT !.up = FALSE]
  /\ StatusUnchanged

\* a cycle calls updateStatus(status, task)
WriteStatus ==
  /\ callOut.up
  /\ callOut.writes < MaxWrites
  /\ \E status \in {"idle", "monitoring", "analyzing", "processing", "error"} :
       callOut' = [callOut EXCEPT
                     !.writes = @ + 1,
                     !.table = WriteRow(@, updateStatus(FindOne(@), status,
                                                        <<"Monitoring cycle">>))]
  /\ StatusUnchanged

\* a cycle writes the counters
WriteCounters ==
  /\ callOut.up
  /\ callOut.writes < MaxWrites
  /\ \E r \in 0..MaxRisks, o \in 0..MaxOpps :
       callOut' = [callOut EXCEPT
                     !.writes = @ + 1,
                     !.table = WriteRow(@, updateCounters(FindOne(@), r, o, r + o))]
  /\ StatusUnchanged

\* the table is emptied from outside (a database reset)
TableEmptied ==
  /\ ~callOut.emptied
  /\ callOut.table # <<>>
  /\ callOut' = [callOut EXCEPT !.emptied = TRUE, !.table = <<>>]
  /\ StatusUnchanged

StatusNext == Startup \/ Shutdown \/ WriteStatus \/ WriteCounters \/ TableEmptied

SpecStatus == StatusInit /\ [][StatusNext]_vars

\* C30: the agent_status table never holds more than one row.  A startup
\* adds a row, in phase idle with the three counters 0, when the table is
\* empty and changes nothing when it is not; a status write or a counter
\* write changes the row that is there and adds none, and changes nothing
\* when the table is empty.
SingleStatusRow ==
  /\ [](Len(callOut.table) <= 1)
  /\ [][/\ callOut'.starts # callOut.starts
          => IF callOut.table = <<>>
             THEN /\ Len(callOut'.table) = 1
                  /\ callOut'.table[1].status = "idle"
                  /\ Counters3(callOut'.table[1]) = <<0, 0, 0>>
             ELSE callOut'.table = callOut.table
        /\ callOut'.writes # callOut.writes
          => /\ Len(callOut'.table) = Len(callOut.table)
             /\ callOut.table # <<>> => callOut'.table[1].id = callOut.table[1].id]_vars

\* the application has started a second time, after a phase and the counters
\* were written: the table holds the row of the first start
RestartKeepsRow ==
  /\ callOut.up
  /\ callOut.starts = 2
  /\ callOut.writes = 2
  /\ Len(callOut.table) = 1
  /\ callOut.table[1].id = 1
  /\ callOut.table[1].status = "error"
  /\ callOut.table[1].risksDetected = MaxRisks

====
